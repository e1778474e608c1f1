# A verification project for the JULES compiler

JULES compiles a C-like language with ownership to x86-64 objects: source text
becomes a syntax tree, the tree becomes a sea-of-nodes graph, up to 92 passes
rewrite the graph, the graph is linearized into machine code over virtual
slots, and the slots get registers. The program is sequential, so nothing here
is about threads. What is hard is what long chains of small rewrites do to
state that several of them share: a cached analysis that is one rewrite old, a
worklist that decides the answer by its order, a value that names a node killed
two steps earlier, a sweep that runs out of registers far from the cause.
The modules model those parts action by action, TLC runs them on every small
input of a family, and TLAPS proves what matters most of them for every input.

Paths below are relative to `src/jules/src/`.

## 1. Inventory

| Component | State | Operations | Talks to | Hard, and what makes it correct |
|---|---|---|---|---|
| Lexer, parser (`core/lexer`, `core/parser`) | token stream, position, error flag, tree | scan, one rule per construct, recovery | semantic analysis | decisions by look-ahead; recovery must consume something; what is accepted must be what is in the tree |
| Semantic analysis (`core/sema/sema.cpp`) | scopes, types, constants | check, evaluate | borrow checker, builder | constant widths, layouts |
| Borrow checker (`core/sema/borrow.cpp`) | what each binding holds, what is known of each allocation, open scopes with defers | use, take, view, call, store, free, branch join, loop walk, exits | semantic analysis, diagnostics | joins and a loop walk with a cap of six rounds: no accepted program may use a moved or freed value |
| Graph builder (`core/son/builder.cpp`) | memory and control cursor, loop stack | one per statement and expression | graph | memory phis at joins and loop headers must name the right version |
| Graph and verifier (`core/son/graph.cpp`, `verifier.cpp`) | nodes, inputs, use lists | make, replace uses, kill, verify | every pass | killed nodes linger; use lists are lazy; 16 inputs at most |
| Analysis manager (`core/son/analysis/`) | five cached analyses | compute on demand, invalidate by mask | passes, pass manager | dominators, loops, aliases, memory dependence and branch probabilities depend on each other; a stale or severed one is silently wrong |
| Dominators, loops (`dominators.cpp`, `loop_info.cpp`) | numbering, idoms, loops | compute, query | loop passes, linearizer | fixpoint in an order given by the graph; irreducible graphs |
| Alias analysis, memory dependence (`alias.cpp`, `memdep.cpp`) | base and locality per address | reaching store, overwrite scan | memory passes | must never call related accesses unrelated |
| Pass manager, levels (`passes/pass_manager.cpp`, `opt_levels.cpp`) | schedule, result, cleanup rounds | gate, run, invalidate, verify, sweep | catalog, analysis manager, driver | gates must hold on every path that runs a pass; failures must surface; rounds must end |
| Constant propagation (`p08_sccp.cpp`) | lattice, executable control, two stacks | visit, meet, mark, rewrite, cascade | graph | optimistic fixpoint, five rewrites in a row on one graph |
| Scalar passes (1 to 5, 7, 9 to 16, 40, 42, 44, 48, 49, 65) | graph | eliminate, fold, number, simplify, hoist, peel, unroll, if-convert | graph, dominators | word widths and signs; values moved, shared and taken over by several passes in a row |
| Memory passes (21, 22, 23, 30) | the memory chain | forward, remove, repair | alias analysis | results must stay what the program says |
| Scalar replacement (26), linearizer (83) | slots, phis, phi copies | promote, insert phis, emit copies | graph, emitter | escape test, order of resolution, parallel copies made sequential |
| Other loop, vector and speculation passes | graph | rewrite | analyses | many; see section 6 |
| Slot liveness (`targets/x86_64/x64_ra.cpp`) | live sets, hulls, generations | dataflow, ranges, problem construction | allocator core | exact at labels, calls and back edges |
| Register allocator core (`core/codegen/ralloc.cpp`) | selection, assignment, active list | select, repair, sweep, coalesce | slot liveness, flow | no two live values in one register, call-crossing values in callee-saved ones |
| Interval selection (`core/codegen/ralloc_flow.cpp`) | residual network | relax, augment, extract | allocator core | optimal, conserving, terminating |
| Instruction selection (84), emission (85) (`x64_isel.cpp`, `x64_emit.cpp`) | covers, pool of constants, code | choose forms, emit blocks and phi copies | linearizer, allocator | sub-expressions folded into a user must still be there; scratch registers, flags and pool constants must survive until they are read |
| Clean-up, branch fusion, peepholes, loop layout (86 to 88) | code | scan, drop, fuse, move | allocator | an instruction may go only if nobody on any path reads what it wrote |
| ELF, superoptimizer, driver | bytes, files | encode, write | all | not modelled, section 7 |

`PROJECT.json` lists the same parts with what is and is not modelled, and under
"hazards" every place where this code can go wrong in a way a test would
hardly reach.

## 2. Modules and the code they stand for

**Register allocation.** `RallocProblem` is the data that crosses from the
target to the core: ranges, generations, classes, moves, and `IsProblem`, the
contract the target keeps (generations lie in the hull, whether a range starts
at its definition depends on its first position alone, none ends at a label
where another begins). `Spans` and `SpanSelect` say what the selection promises:
the heaviest set of spans that never exceeds a segment's capacity. `RallocFlow`
is `ralloc_flow.cpp`: network construction, the queue-based shortest path one
relaxation at a time, augmentation, extraction; it implements `SpanSelect`
under the mapping of its residual arcs to an answer. `Ralloc` is
`ralloc_hybrid`: per class the selection of call-crossing ranges, then of the
others against what is left, the repair, the left-endpoint sweep with expiry,
bank preference and the demote valve, then up to six rounds of coalescing, one
move per step. It asks `SpanSelect` for the selections and accepts any optimal
one. `SlotLiveness` is `Allocator::analyze`, `extract_fuses` and `build_problem`:
the backward dataflow block by block, hulls, crossings, generations, loops,
loop-carried flags, weights, the accumulator chains one load at a time with the
hints and range extensions they ask for, and the `Problem` handed on.
`Allocation` composes the two: `Problem` is solved by `Ralloc` step by step, the
promoted slots and the applicable chains are rewritten as `Allocator::rewrite`
does, and the result runs over every path, each register and stack slot holding
the set of slots whose present value it contains.

**Passes as a schedule.** `Pipeline` begins with the catalog, which is `pass.h` with
the tables of `opt_levels.cpp`: the orders, stages, modes, required analyses,
invalidation masks and availability rows of all 92 passes. Then it is
`run_son_pipeline`: main run, analyses computed on demand with what they are
built from, masks applied after a pass returns, verification, the cleanup
sweep, the JIT cap. A pass's effect is what the schedule can see of it: whether
it reported a change, whether it broke the graph, and whether it restructured
control and then asked for an analysis again in the same run (42, 44, 57, 72).

**Passes as rewrites.** `MemoryGraph` holds the graph as the memory passes see it
(allocations, loads, stores, calls, memory phis), the builder's emission of it,
the chain walks of `alias.cpp`/`memdep.cpp` and an execution. `SonMemory` runs
passes 21, 22, 23 and 30 over it, one node per step, main run then cleanup
sweeps, with the alias analysis cached as the manager caches it. `Promotion`
runs forwarding, scalar replacement (one allocation per step), the collapse of
trivial phis and the linearizer's phi copies. `MemoryGraphProofs` proves what emission,
use replacement, relinking, killing and the chain walk do to any graph, and
`SonMemoryProofs` that the passes keep the chain intact; `PromotionProofs` proves that
scalar replacement takes every variable out of memory.
`Dominators` is `dominators.cpp` and `loop_info.cpp`: the depth-first search one
edge per step, the sweeps one block per step, then loops, nesting, preheaders.
`DominatorsProofs` proves the tree and the loops exact; `Iteration` holds the facts on induction,
recursive functions and least fixpoints that the proof modules share.

**Scalar passes.** `Words` holds the types and two arithmetics side by side: what
the passes compute on 64-bit payloads and what the machine computes on words of
their width (a 64-bit word has 8 bits here, a 32-bit word 4). `SonGraph` is the
whole graph for control and values: node records, use lists, use replacement,
killing, the verifier's rules for scalars, and `Run`, an execution that traps on
a division by zero and whose calls return what an oracle says. `SsaBuild` builds
such a graph from a structured program as `builder.cpp` followed by scalar
replacement leaves it: expressions over typed scalars, branches, loops and their
exits, and the control flow of `and` and `or`. `Rewrites` is what the visiting
passes do to one node (2, 3, 4, 7, 10 to 16, 65). `Sccp` is pass 8: the two stacks
one pop per step, the safety net, constants, regions, branches, unreachable blocks and the
cascade. What passes know of control (block order, dominators, loops) is the last part of `SonGraph`.
`Scalar` runs all of them in catalog order, a round of a pass per step, with
dead node elimination (1), residual folding (5), value numbering (9), loop-invariant
motion (40), predication (48) and if-conversion (49) in their places, and then the
cleanup rounds. Its first part finds the loops whose trips can be counted and puts copies of their bodies
behind the latch (42) or in front of the header (42, 44), with the loops of before the
pass's first change, which is what the cached dominators make of `LoopInfo::compute`.

**Code generation.** `Mir` is the machine code and what it does when it runs:
registers read at three widths, slots, flags, labels, a trace of stores and
calls. `Isel` begins with a function as the linearizer hands it over and its meaning, and
is then the planner (dynamic programming over the block, then the ILP's flips),
`Emit` the emission of a plan, with scratch registers, the pool of float
constants, fused branches and phi copies. `Rewrite` is what the allocator does
to the code around an assignment, for any assignment that keeps live slots apart;
`Peephole` is the clean-up behind it (86), branch fusion and the peepholes (87),
loop layout and the hoisting of constants (88). `Codegen` runs a
function through all of them, one pass per step.

**Source text.** `Parser` is the recursive-descent parser: one operator per
parsing function on a token stream, each giving the parser's state (position,
`errored_`, whether a diagnostic was given) and a tree; a declaration per step.
Any token stream is an input, so recovery after errors is part of it. `Yield`
reads a tree back as tokens and `Grouped` says how its operators may nest.

**Source semantics.** `Ownership` is what the strict borrow checker believes:
the value of every binding, what is known of every allocation, how statements
change both and how two paths join. `Borrow` is its walk, statement by statement
with the frames of open branches and loops, silent rounds, reporting round,
snapshots taken by `break` and `continue`, defers at every exit; and then, when
the verdict is "accepted", a run of the same function as `builder.cpp` lays it
out, over cells that are really allocated, lent and freed.

Names follow the code; the map in `PROJECT.json` gives the lines. A name with a
suffix (`Meet_FirstWins`) is a plausible bug in the operator that follows it:
every property is known to fail under one of them.

Abstractions worth knowing: `Pipeline` does not model how stale an alias analysis
is, only that of control analyses, and leaves out the call-graph analysis no
catalogued pass asks for; a defensive branch of the cleanup sweep that needs a
catalog without linear passes is unreachable and left out. `SonMemory` has no
value phis of pointers (they arise after 26) and one memory phi per join.
`Borrow` checks callees in the order their summaries are made: one declared after
its caller is summarised too late (`borrow.cpp:134`), its result looks fresh, and
the compiler accepts a program that frees an argument twice that way. It returns
only owners: `defer free(p); return p as *const i32` is accepted, because the
defers run after the value was looked at. An aborted promotion in `Promotion` leaves the
graph alone; the code may leave an unused phi behind, but no program gets there (`PromotionNeverAborts`). `UsesOf` lists a user that mentions a node twice once.
`Scalar` takes variables as phis from the start where `builder.cpp` and passes 21
to 30 leave them so; a function whose variables are parameters only enters at
pass 1, the others at 40. Its properties are stated while pass 8's safety net has
had nothing to do (`netted`): the net marks the arms of an `If` whose own block is
dead (`p08:59`), a live merge then keeps a dead first predecessor, and the cascade
kills it. A pass stops its rounds when it changed nothing, and a cleanup round
always runs to its end; the code's early stop of unchanged rounds is left out.
`Full` is empty in its run: the array of nodes never moves while a reference into
it is held (section 4). Float constants are counted in halves. In `Codegen` memory
that is loaded is not the memory that is stored to, `Parameters` are emitted in
node order, the `walk` budget of 1500 visits is never met, and a dead-code sweep that the
source disables with `false &&` is left out, as is the branch folding of
accumulators (`x64_emit.cpp:3269`), whose pattern no emitted code has.

## 3. Runs

| Run | Instances | Shows |
|---|---|---|
| `ralloc` | all choices of three ranges over five positions, one of which begins a block, two banks of one register; and ranges with up to two generations, a cycle of three moves, a class of three registers and one of one | `TypeOK`, `NoClobber`, `CrossingSafe`; `SelectionFits` (what was selected fits both banks after the repair), `DemotionOnlyByIntruder` (a selected range lands in memory only if it crosses a call and a non-crossing one holds its register), `CoalescedToFixpoint` |
| `ralloc_flow` | every call of up to three spans on up to three segments of capacity 0 to 2, and the three hand-made cases of `scripts/ra_flow_selftest.cpp` | `Optimal` (refines `SpanSelect`), `Answers` |
| `allocation` | 5904 functions: two slots over a while loop, a rotated loop, a diamond, nested loops and a loop that may skip its latch; three slots in a loop with two statements; two registers, one of them saved by the callee; every slot written before it is read on all paths | `DataflowExact` against liveness by paths, `RangesExact` (slots that interfere have hulls that meet, and a call marks what lives over it), `ContractKept` (the allocator's assumption `IsProblem`), `ReadsKept` (every read of the rewritten function finds its slot's value, unless a register is shared over a gap in the generations) |
| `pipeline` | all 92 passes, every level, mode and budget, kill switches for passes that drop both memory analyses, verification on and off | `GatesHoldEverywhere`, `NoSeveredAnalysis`, `LoweringSeesFreshTree`, `FailureReported`, `Terminates` |
| `memory` | every line of four statements over two pointers, an integer and two allocations; if/else and while programs with up to five statements | `ResultsKept`, `GraphIntact` (no live node on a dead chain, no use before its definition) |
| `promotion` | lines, if/else and while programs over three integers and a pointer, rotations and calls | `PromotionExact`, `SlotsPromoted` |
| `swap_cycles` | the same | ends in a violation of `NoSwapCycles`, section 4 |
| `dominators` | every graph of four blocks with at most two successors each, reducible or not, with unreached blocks | `IdomExact`, `LoopsExact` (loops are the cycles, nest, and have preheaders that dominate), `Terminates` |
| `scalar` | 1973 functions: every operation and comparison with every operand some pass knows, pairs of terms, conversions there and back, choices, decisions in a row, loops with break, continue and return, nests, counted loops, loops of five to nine rounds that are peeled and unrolled by four, with calls, decisions and loops in them, `and`/`or` shown, decided on and looped on; each on every combination of its inputs and of what its calls return | `DrainExact` (the stacks find the fixpoint of the equations), `FactsHold` (what it says is true of every run), `PassesExact` (results, calls and traps survive every pass), `GraphStaysWhole` (the verifier takes every graph), `ValuesReach` (what was moved or shared is computed on every path before it is used) |
| `codegen` | 475 functions: trees, addresses, quotients by constants, truth values, selects, floats, conversions, calls, branches, loops and loops with branches; two argument registers, two saved by the callee; four words per argument, two kinds of junk in what the hardware leaves undefined | `SelectionExact`, `AllocationExact`, `PeepholesExact`, `LayoutExact`: after each pass the code shows the stores, calls, faults and result of the function |
| `borrow` | a prologue that owns two allocations and a view of one, then every line of three statements, every branch, every loop with and without a way out of it, every block with a defer; a lent pointer, four variables, callees that return a new allocation, their argument, or what another returns | `SafeWhenExact` (accepted functions never touch freed memory while no join had to choose between allocations), `ExclusiveWhenExact`, `LentComesBack`, `RoundsSuffice` (the reporting round starts from what it maintains) |
| `parser` | expressions of up to three operators with prefixes and postfixes, nested statements, pairs of declarations of every kind, every program with one token replaced or removed, every prefix of one, any four tokens in a body | `AcceptedIsKept` (what is accepted is its tree, token for token and grouped as `prec_of` ranks, where nothing is knowingly dropped), `LegalAccepted` (the looks ahead never reject a program), `NeverStuck` |

*Why the bounds are enough.* Two ranges interfere pairwise, and the demote valve,
the repair and coalescing need a third as the intruder, the holder, or the one
on the register already; five positions give each pair every relation at a label and
elsewhere. Two slots and two registers are enough for a coalescing that must not
happen, three slots for a range that goes without. Three segments are the fewest on which a span bypasses a breakpoint
it does not touch. Slot liveness needs a path
through a block that neither reads nor writes, an exit from a latch, a loop in
a loop and a way round a definition: the five shapes.
The pipeline is not reduced at all. Four blocks are the fewest that hold an
irreducible loop under a branch. The memory rewrites are local to a pair of
accesses with a join or a back edge in between; three more statements let the
result of one rewrite be the input of the next. `MaxDepth` (64 in the code), `MaxRounds` (8) and
`MaxSweeps` (3) of `memory` are 3, 3 and 1, above what these programs use.
In `scalar` the rewrites look at a node, its operands and theirs, which the terms
cover; words of 8 and 4 bits keep every relation the passes test (a constant that
fits the narrow type or not, a shift below or beyond the width, a sum that wraps)
and the samples meet each end of the range. `Fuel`, one stretch of 16 blocks, lets a run leave
every loop it can leave, `LongFuel`, 16 of them, one through every round of a counted loop in a counted loop
(a run that does not end is compared by what it did up to there); `UnrollFactor` 4 is
that of -O2, and five to nine rounds leave every remainder by it; `CleanupRounds`
2 is what -O2 gives; `StepLimit` 1000, 100000 in the code, is never reached.
In `codegen` a word has 8 bits and its half 4 (`Half`); the inputs 0, 3, 131 and
255 are zero, small, and negative with and without a low half; two argument and two
saved registers are enough for a function to run out of either.

`CHECK_DEADLOCK FALSE` stands where a function is done when its last pass is.

*Fairness.* The program is sequential and nothing can stop it from taking its
next step, so `WF_vars(Next)` is what the code's own control flow gives;
`RallocFlow`, `Pipeline` and `Dominators` use it for `Answers` and `Terminates`.
`Pipeline`'s termination does not lean on passes that stop changing things: the cap
on the rounds is what ends it. The other modules
state safety only and have no fairness; that the parser comes to the end is the
safety property `NeverStuck`, which says more.

## 4. Disagreements between the code and what it says

One is a run that ends in a violation, and `PROJECT.json` quotes both sides:
`swap_cycles`. "Swap cycles are not generated by the MVP frontend" (p83:9), but a
loop that rotates its variables generates one, and the sequential moves lose a
value (p83:66); `fib.jules` returns 10 instead of 55 at -Oz.

All that follows was reproduced with the compiler built from this source, as
programs with another result, a crash or another verdict, except where a row says
that only a weight or a cost is concerned.

The modules also state the following, none of which holds; each is
reproduced by giving the named run's configuration that one INVARIANT.

| Definition | In the configuration of | What happens |
|---|---|---|
| `SharingIsSound` | `allocation` | "Two slots may share a register iff their gens never overlap" (`x64_ra.cpp:65-70`), but a generation ends at the last use before the next definition in stream order (:206): a variable written at a latch is in none of them on its way to the header. A copy `a = m` at the latch makes the two a pair, the pair passes the test, and `m` is computed over the `a` that is read after the loop. `ReadsKept` says that nothing else goes wrong. `var a = 7; var i = n; while i < k { let m = i*i+3; i = i+1; if m > 30 { continue; } a = m; } return a;` with `n = 1`, `k = 9` returns 28 at -O0 and 39 at -O1. |
| `AcceptedIsSafe` | `borrow`, with `Kinds = {"branch"}` | "Double free, use after free ... are errors" (`borrow.h:19`) and "fuzzy gates checks" (`borrow.cpp:811`), but no check reads `fuzzy`, and a join keeps the first path's allocation: after `if c {} else { p = q; }` a `free(p)` is accepted while a view of `q`'s allocation is read later. |
| `AssignmentInventsNoSpill` | `ralloc` | "assignment ... never needs to invent a new spill" (`ralloc.h:20-23`), but the sweep goes by left endpoint (`ralloc.cpp:228`): a non-crossing range may take a callee-saved register before a selected crossing one begins, which is then demoted (`ralloc.cpp:260`). |
| `GensExact` | `allocation` | the gap behind `SharingIsSound`, stated on the ranges. |
| `AnalysesAreCurrent` | `pipeline`, with `Options <- Plain` | "loop invalidation after a rewrite forces a re-compute" (p42:48), but masks are applied after a pass returns (`pass_manager.cpp:85`): a pass that rewrites control and scans again (p42:52, p44, p57, p72:234) is handed the dominators of the graph before its rewrite. |
| `LoopCarriedExact` | `allocation` | "loop-carried = live across a real backedge" (`x64_ra.cpp:983`), but the latch's live-out is marked, its exit edge included (:1015). Weight only. |
| `BudgetOnlyConstrains` | `pipeline`, with `Options <- Capped` | "JIT budgets only constrain" (`docs/opt_levels_spec.md:1165`), but levels are compared as numbers and -Os, -Oz lie above -O3 (`opt_levels.cpp:311`): they become -O2. |
| `RunsWhereCommented` | `pipeline`, with `Options <- Plain` | the rows quoted for loop interchange and fission (`opt_levels.cpp:156,158`) are null, and the phase default runs both wherever above -O0. |
| `UnresolvedMayAlias` | `memory` | "Everything unresolved is MayAlias" (`docs/pass_status.md:368`), but the walks compare bases with an equality that is false for an unresolved address and step over such accesses (`memdep.cpp:10,36`, p21:67): `*p = 1; p[i] = 2; use *p` reads 1. `ResultsKept` is stated for programs in which no cell is met both ways, the largest class for which it holds. |
| `NothingLost` | `parser` | the path of a module is "recorded" (`parser.cpp:127`), but two tokens are skipped unseen for each colon (:129): `module a:+b;` is accepted. Nor is the callee of a call kept unless it is a name (:1032, `f(1)(2)` calls `f(2)`), or an attribute before anything but a function (:142). |
| `LocalsNeverPassed` | `memory`, with `Programs <- Renewing` | "never to calls, returns, stores-as-value" (`alias.cpp:16-21`), but a store that has the allocation as its memory input is accepted before its value is looked at (:35): `p = alloc(..)` to a declared variable counts as local, forwarding makes it a call's argument, and dead store elimination runs on the cached answer. |
| `NoDeadValues` | `promotion`, with `Programs <- Called` | values are resolved before the first load is replaced (p26:116-133): in `f(p); u = u; f(p); use u` the second load becomes the first, which has just been killed. `PromotionExact` excludes exactly these steps. |
| `FlipsCost` | an operator of `Isel` | "latency delta of flipping (always > 0)" (`x64_ilp_isel.cpp:358`), but a flip may make its block cheaper by the planner's own table. Cost only. |

Two modules know programs that the compiler gets wrong. Each is a family of
`MCScalar` or `MCCodegen` that is not among the `Families` of the run; with it alone
the property named fails. The passing families are the largest the code keeps right.

| Family | Property | What happens |
|---|---|---|
| `shortcut` | `PassesExact` | "Purity is the whole soundness argument" (p48:15), but a division is pure and traps: `b != 0 && a / b > 1` divides first. Crashes at -O1 to -Os. |
| `division` | `PassesExact` | if-conversion (p49) and hoisting (p40) move a guarded division in front of its guard; `is_pure_op` (`node.h:121`) includes `Div` and `Mod`. |
| `difference` | `PassesExact` | p12:107 makes `(x - y) + x` into `y`. |
| `scaled` | `PassesExact` | p12:115 makes `(x * C) / C` into `x` where the product has wrapped. |
| `payload` | `PassesExact` | constants of 32 bits are added in 64 and not cut, so `7FFFFFFF + 1 > 0` folds to true. |
| `conversion` | `PassesExact` | p04:62 takes a widening and narrowing back to a type of the other sign for no conversion. |
| `region` | `PassesExact` | p10:60 collapses a region and moves only what is pinned first; an enclosing merge keeps the place of the dead one. |
| `never` | `PassesExact` | "Gt/Ge are the countdown forms: span goes negative and the clamp rejects" (`loop_transforms.cpp:151`), but with `i = 0` and `i > 9` the span is 9: a loop that never runs is peeled and runs. |
| `reread` | `PassesExact` | when value numbering has merged a test in the body with the loop's own, every copy reads the comparison in the header it precedes (`Cloner::remap` leaves it as it is). |
| `peeled` | `PassesExact` | in its second round pass 44 copies the outer loop with the blocks of before the inner one was peeled ("structure changed: recompute", p44:52); results are wrong at -O2, and -O3 crashes. |
| `operations` with `Full = {6, .., 16}` | `PassesExact` | p12:136 holds a `Node&` over the creation of a constant; where the array moves, the operation keeps its name and gets the operand of the other (also :181, :186, :199). |
| `swap` | `SelectionExact` | the copies of `swap_cycles`, in the code. |
| `truth read twice` | `PeepholesExact` | branch fusion drops a truth value that an arm still reads (`x64_emit.cpp:2456-2561`). |
| `unsigned division` | `SelectionExact` | `rdx` is to be cleared by an exclusive or with zero, which clears nothing, and an unsigned division faults (:482). |
| `narrow division` | `SelectionExact` | `SExt32` extends `rax` whatever its operand is (:461). |
| `narrowed` | `AllocationExact` | `x as u32 as u64` becomes a move of 64 bits (`x64_ra.cpp:1500`). |
| `narrow to float` | `SelectionExact` | a 32-bit integer is converted with what lies above it. |
| `pool` | `SelectionExact` | "DOMINANCE SOUNDNESS" (:160) looks at the block that loaded a pool constant, not at the calls since: a call in a loop destroys it. |

Seen on the way, reproduced or plain from the source, and not modelled: constant shift counts of 32-bit words are masked with 63;
value numbering and pass 65 merge 0.0 and -0.0, and a constant -0.0 is loaded as
0.0; `x < 5` and `x <= 4` are turned into each other until pass 12 runs out of
rounds; p49 goes through a use list while it rebuilds it; constant propagation
never settles on a NaN.

Rules of the code that no function of the runs fires: conversions between equal types in 4, 11 and
14; a truncation of a truncation; pass 17 (it needs a `Select`, which pass 49 makes
later); passes 6 and 18, which find nothing in this IR; of the code rules, the pair
of an immediate store and a load in `PairFold`, pass 86 on code that the allocator
has already paired, dead stores in 87, and retargeting of address arithmetic.

## 5. Proofs

Eight modules hold theorems; every one is for all values of the constants, and no
statement is left to trust. `PROJECT.json` lists the results, the modules their lemmas.

**`RallocProofs`**, for any number of ranges, registers, classes, generations and
moves. Assumed: every problem keeps `IsProblem`, the contract of the target
(proved of the code that builds problems, below); `NoReg` is no register; the
coalescing has at least one round.

- `TypeCorrect`, `NeverClobbers`, `CallsAreSafe`. The inductive invariant is
  `TypeOK /\ ClassProgress /\ HoldsOrExpired /\ NoClobber /\ CrossingSafe`.
  `NoClobber` alone is not inductive: during the sweep it needs that a slot's
  holder is either still active or ended before everything yet to come
  (`HoldsOrExpired`), and that the ranges of later classes have nothing
  (`ClassProgress`). Ranges whose hulls are ordered by `Expired` share no live
  segment, and neither do ranges the generation test accepts (`GensDisjoint`),
  which needs the contract at labels. The coalescing step uses both, because it
  tests the pair by generations and everyone else on the register by hull.
- `SelectionAlwaysFits` (`FitsInv`): the second selection is made against what the
  first left, so the sum of the two is what must be bounded, segment by segment; a
  step of the repair only removes. Nothing is used of the selection but that it
  answers `SpanSelect`, so the result does not depend on which optimum is found.
- `DemotionsExplained` (`DemoteInv`): when a crossing range finds no callee-saved
  register free, the registers have as many holders active there (`HoldersKnown`); were
  all of them crossing ranges, `FitsInv` would leave no room for this one.
- `CoalescingComplete` (`FixpointInv`): within a round, either a change was recorded or
  every move before the cursor is stuck; a round that ends without change is a fixpoint.
- `SweepKeepsHullsApart` (`SweptApart`): until coalescing, sharers are ordered by
  `Expired`. This is stronger than `NoClobber`, which coalescing keeps and this not.

**`AllocationProofs`**, for every program, every block graph and every bank. It is
`SlotLiveness` and `Allocation`, with the proofs of the core instantiated on the
problem posed to it.

- `FixpointExact`: when the sweeps stop, `liveOut` is path liveness, loops included.
  `FlowInv` says that the sets only grow (`Growing`: each is part of what recomputing it
  would give), hold only what is live on a path (`Truthful`), hold nothing that a
  certificate of "written first" forbids (`Certified`), and that what was visited without
  a change is a solution (`Settled`). Liveness is defined by iterating `Live` from the empty set;
  that the iteration is closed after as many rounds as there are positions
  (`ClosureReached`) is counted by the sizes of its stages, and what is closed contains it.
- `HullsExact`: over a fixpoint, the backward walk has marked for every position it has
  visited exactly what is wanted there (`WalkInv`, `Marked`); hence the hulls hold every
  place where their slot is wanted (`HullsHold`), a slot crosses a call exactly
  when it is live after one, and slots with separate hulls interfere nowhere.
- `ContractMet`: the problem keeps `IsProblem`. The hard parts are that a
  hull begins at a write (`FirstIsDef`: nothing unwritten is live into a block), and
  that generations lie in the hull and are disjoint.
- `CallsKeepValues`: through selection, sweep, coalescing and rewriting, a slot that some
  path reads after a call is in no caller-saved register. This and the next two
  join liveness on paths to registers; no single component states them.
- `SweepKeepsApart`: until coalescing, slots that interfere on a path share no register.
- `OnceWrittenKeptApart`: at every stage, two slots that are each written once and
  share a register interfere nowhere. Without "written once" it is false, and TLC shows
  it: coalescing by generations lets slots written several times share while one is
  live through a gap of its generations (section 4).
- `AllocationInvariant` is the invariant under all of these: `FlowInv`, `WalkInv`,
  `RangeInv`, and the core's invariants for the problem posed.

Assumed is `IsProgram`, which TLC evaluates for every program of the run `allocation`:
positions, blocks and slots are finitely many; blocks are numbered as the linearizer does, in
reverse postorder of the reachable control heads (`p83:29`), so each but the
first is entered from an earlier one (`Numbered`); they are emitted in that order with
one label each, and are left other than by falling into the next one only from a jump
(`LaidOut`), which `emit_terminator` and the fallthrough edge of `p83:202` see to; the
prologue falls into the first block; and no path reads a slot before it is written
(`WrittenFirst`), because slots are homes of SSA values, whose definitions
dominate their uses, and of phis, which are copied to at the end of every
predecessor (`p83:53`). The last is stated by a certificate, a set of blocks on whose
entry the slot has been written, so that it can be used without induction over paths.
`BankAssumption`: a register is in the bank once.

**`PipelineProofs`**, for every set of options whatever.

- `GatesHold`: nothing the user killed or the mode or level forbids ever runs; the
  invariant adds `ChosenUngated`, that the pass about to run has passed its
  gate, in the main run and in the sweep, which gate separately. `FailuresReported`: a
  pipeline that met a verification failure anywhere never ends in success.
- `NeverSevered`: no pass is served an analysis that points into one that was dropped.
  The masks are not closed under "is built from": 54 and 58 drop alias analysis and leave
  memory dependence pointing into it. The invariant (`MemDepInv`) says when that can be: only
  20, 22 and 23 read memory dependence, all before 54, and it is still cached behind 23 only if
  23, which drops it, is gated; so no reader follows, in the cleanup sweeps either.
- `LoweringIsFresh`: without an `--only` list that leaves 53 and 57 alone, the linearizer's
  dominator tree is that of the graph it linearizes. 50 and 56 restructure control and
  keep the tree; what saves it is that 53 and 57 come between them and the linearizer and drop it
  (`StaleIsDropped`). `LoweringIsFreshIf` is the same for all options under which 53 and 57 are
  gated only where 50 and 56 are.
- `OrderKept`: in the main run a pass begins only when every pass that ran, in the main run or in
  a sweep, is one that comes before it by stage and slot; and no sweep touches the graph once a
  pass has worked on machine code (`pass_manager.cpp:236`). The invariant is that what ran is behind
  (`RanBehind`); a sweep keeps it because it runs at the boundary between the stages, where all passes over
  the graph are behind (`GraphPassesBehind`) and no other is (`LinearPassesLast`).

**`DominatorsProofs`**, for every finite set of blocks and every graph on them.

- `IdomIsExact`: when the sweeps stop, each reachable block's `idom` dominates it and is
  dominated by all its other dominators, where dominance is by paths (`TrulyDominates`: no
  path from the entry avoids the block); and the blocks numbered are the reachable ones.
- `DominatorsInvariant` is the invariant under it. The search (`SearchInv`) has seen only what is
  reachable, each block once (`EachOnce`), and keeps every block behind one that leads to it, on
  the stack and in the order (`Behind`); so each numbered block but the entry comes after one of its
  predecessors (`Numbered`). The sweeps (`SweepInv`) keep every `idom` at a smaller number
  (`Climbing`), so walks up the tree end and the two fingers find the join of two walks
  (`IntersectJoins`). No walk passes a dominator by (`NeverPasses`), for what dominates a block and
  comes before its `idom` dominates that too (`Inherits`). What a sweep has visited has a dominator (`PlacedBefore`)
  and, if nothing changed, lies below what its predecessors share (`Settled`). Then the blocks that can
  only be reached through what a walk meets form a set closed under edges, so the walk meets nothing
  but dominators (`SettledIsTrue`).
- `LoopsAreExact`: on such a tree, everything the loop passes rely on. A loop is the least set that
  holds header and latches and is closed under predecessors up to the header (`LoopIsLeast`), so its header
  dominates what is reached of it (`HeaderDominates`). Of two loops that share a reached block one header
  dominates the other, and then lies inside its loop (`HeaderInside`): they nest, and depths count parents
  (`DepthCounts`). The one predecessor outside a loop is on every path to the header, so a preheader
  is its `idom` (`OnlyEntryDominates`). In a reducible graph, of the blocks on cycles with a given one,
  the one with most ahead of it along forward edges is entered from the others by back edges only
  (`AheadShrinks`), and heads a loop around the given one (`CyclesAreLoops`).

Assumed is that `Blocks` is finite and holds the entry (`BlocksAssumption`), and that a graph gives
each block a sequence of blocks other than the entry (`GraphsAssumption`: `build_cfg` draws edges only
to the arms of branches, jumps and regions). Recursive functions inside operators (`From`,
`Intersect`, `NewIdom`) are shown to exist by induction (`Iteration`), then used by their equations; that
`From`, `Body` and `Ahead` are closed after as many rounds as there are blocks is `GrowthCloses`, from
`ClosureReached`.

**`SonMemoryProofs`**, for every program of every shape and length, every bound on rounds, sweeps
and walks. `MemoryGraphProofs` holds the lemmas on the graph.

- `GraphStaysIntact`: through passes 21, 22, 23 and 30 and the cleanup sweeps, no live node takes its
  memory from a dead one, and the address and value of every live node come from live nodes
  that are executed before it. The invariant (`IsGraph`) is about the whole graph. Every version of memory is
  an earlier node of the same block or of one that dominates it (`ChainIntact`), and so is
  every value (`ValueIntact`); the only exceptions are a phi's inputs, which are the versions at the
  ends of its region's two sides (`PhiIntact`). A killed node keeps its memory link, and what it links to is
  earlier too, so a walk up the chain ends, and whatever it passes dominates where it began. The value
  pass 22 forwards and the load pass 21 reuses are met on such a walk (`ReachingStore` and
  `DominatingLoads`), and both sides of a phi it has to agree on; so either dominates what is replaced.
  Pass 23 bypasses the store it kills, which moves the link of its users up the same chain.
- `RepairIsIdle`: pass 30 never finds a link to repair, in the main run and in the sweeps.

The builder is part of it: every statement of every program, on every shape, yields an intact
graph (`InitIntact`), by induction over the statements of a block. Assumed is
`ProgramsAssumption`: a program is a shape and a sequence of statements for each block. The walks are
recursive functions; that they have the equations they are defined by is
`MeasuredRecursion` of `Iteration`, since each goes up the chain.

**`PromotionProofs`**, for every program of every shape and length.

- `SlotsLeaveMemory`: when scalar replacement is done, the four variables are out of memory, and none
  comes back. `SlotsPromoted` alone is not inductive: what has to be carried from the builder to a
  variable's turn is that its address is still nowhere but in its own loads and stores (`Guarded`), and that the
  graph is still one the pass can read (`Linked`: versions lead up the chain and live nodes
  take theirs from live ones, stores have values, values are made earlier or by value phis). The
  builder yields both: after the declarations it makes no node that stores the address of a
  variable (`Beyond`, by induction over the statements of a block). Forwarding keeps them, and needs for it
  the intact graph of `MemoryGraphProofs` (`Carried`). A promotion keeps them for the variables still
  to come, because what a version of memory holds is a stored value, a value phi or nothing
  written yet (`HeldSourced`), and a stored value is no guarded address. What is guarded passes the
  test of the pass (`GuardedPromotable`), and the pass takes the candidates in order, so it
  overlooks none (`IInv`).
- `PromotionNeverAborts`: no promotion is given up for want of a value. Going up the chain from a load
  one meets the allocation, one of its stores or the memory phi (`HeldExists`, `AlwaysResolvable`).

Assumed is `ProgramsAssumption` again. The second needs of the graph only that it is linked, and
holds of any allocation in it.

**Only model-checked**, and why. `ReadsKept` speaks of runs of rewritten code that may
share a register over a gap, and excepts them; the theorems above bound what can be
excepted. Optimality of the selection (`RallocFlow` against `SpanSelect`) is an argument on
augmenting paths in residual networks, an induction over path lengths. `SonMemory.ResultsKept` and
`Promotion.PromotionExact` speak of executions of the graph
along every path; so do `Borrow`'s properties of the accepted
function's run. Modules that reach RECURSIVE operators or `Bitwise` (`Words`, `Sccp`, `Scalar`,
`Parser`, `Codegen`) lose the SMT backend and carry no theorem.
Liveness under fairness, ENABLED, and induction over data are out of this prover's reach.

## 6. Plan

Done, in this order: allocator core and selection, slot liveness and chains, their composition, pipeline,
memory passes, scalar replacement, dominators and loops, constant propagation,
the proofs of the allocator, the pipeline and the dominators, borrow checker, parser, code
generation from selection to layout, the scalar passes around constant propagation, and loop unrolling and peeling.

Next, most important first:

1. *Other loop transforms* (41, 43, 45 to 47) and tail recursion (50) on `SonGraph`.
2. *Guards*: hoisting, weakening and merging (72 to 74) against the state a
   deoptimization resumes in.
3. *Memory and values in one graph*: `SonMemory` and `Promotion` on `SonGraph`, so
   that 21 to 30 run between 16 and 40; the limit of 16 inputs (`graph.cpp:90`)
   belongs there.
4. *Linearizer*: block order and the fallthrough successor it attaches; `Codegen`
   takes the order as given.
5. *Semantic analysis*: constant evaluation against `Words`; *driver*: option
   parsing onto `Options`.

Theorems to come: that the reads of rewritten code find their slot's value where slots
are written once (`ReadsKept`, from `OnceWrittenKeptApart`); the cells `Borrow` lends come back; that every exchange of
`RallocFlow` keeps the network's balance, the safety half of its implementing `SpanSelect`.

## 7. Not modelled, and why

Lexing and diagnostics: sequential text processing the golden tests cover. Type
checking and compile-time evaluation: traversals without shared state. Vectors,
`f32`, and integers of 8 and 16 bits, in the passes and in the code: more rows of
the same tables. Byte encoding, print formats, tail calls and profile-guided layout
of the emitter, and the ELF writer: tables and offsets without control state. The
superoptimizer: random search over bit vectors, which a model checker cannot
enumerate. Vectorizers and the loop transforms other than 42 and 44: graph surgery of
their own; only their use of cached analyses is in `Pipeline`. Speculation, guards
and deoptimization: planned.
