---------------------------- MODULE PipelineProofs ----------------------------
(***************************************************************************)
(* For every set of options: no gated pass runs, no verification failure   *)
(* is reported as success, no pass is served an analysis whose input is    *)
(* gone, lowering works from a fresh dominator tree, and passes run in the *)
(* order of the plan, the cleanup sweep at the boundary of the stages.     *)
(***************************************************************************)
EXTENDS Pipeline, TLAPS, FiniteSetTheorems, FunctionTheorems

\* The gates are read when a pass is chosen and must still hold when the pass
\* is recorded, three steps later: while a pass is under way it is not gated.
ChosenUngated == pc \in {"query", "transform", "rescan", "settle"} => ~ShouldSkip(Pass)

IInv == ChosenUngated /\ GatesHoldEverywhere /\ FailureReported

\* Init establishes it.
LEMMA InitHolds == Init => IInv
BY DEF Init, IInv, ChosenUngated, GatesHoldEverywhere, FailureReported

\* Whether a pass is gated depends on the options and the pass alone.
LEMMA SameOptionsSameGates ==
  ASSUME opts' = opts, NEW o
  PROVE  ShouldSkip(o)' <=> ShouldSkip(o)
BY DEF ShouldSkip, Level, EffectiveLevel

\* A step that leaves the place in the plan and in the sweep alone leaves the
\* pass under way alone.
LEMMA SamePlaceSamePass ==
  ASSUME sweep' = sweep, at' = at, ci' = ci
  PROVE  Pass' = Pass
BY DEF Pass

\* Every step keeps it.
LEMMA StepHolds == ASSUME IInv, [Next]_vars PROVE IInv'
<1> USE DEF IInv
<1>o. opts' = opts
  BY DEF Next, vars, MainNext, StartSweep, SweepNext, NextRound, Query, Transform, Rescan,
         Settle, Finish, Done
<1>g. ASSUME NEW o PROVE ShouldSkip(o)' <=> ShouldSkip(o)
  BY <1>o, SameOptionsSameGates
<1>1. CASE MainNext
  <2>1. Pass' = Plan[at + 1]
    BY <1>1 DEF MainNext, Pass
  <2>2. ChosenUngated'
    <3>1. pc' \in {"query", "transform", "rescan", "settle"} => ~ShouldSkip(Plan[at + 1])
      BY <1>1 DEF MainNext
    <3> QED BY <3>1, <2>1, <1>g DEF ChosenUngated
  <2>3. GatesHoldEverywhere'
    BY <1>1, <1>g DEF MainNext, GatesHoldEverywhere
  <2>4. FailureReported'
    BY <1>1 DEF MainNext, FailureReported
  <2> QED BY <2>2, <2>3, <2>4
<1>2. CASE SweepNext
  <2>1. Pass' = CleanupOrders[ci + 1]
    BY <1>2 DEF SweepNext, Pass
  <2>2. ChosenUngated'
    <3>1. pc' \in {"query", "transform", "rescan", "settle"} => ~ShouldSkip(CleanupOrders[ci + 1])
      BY <1>2 DEF SweepNext, SweepSkips
    <3> QED BY <3>1, <2>1, <1>g DEF ChosenUngated
  <2>3. GatesHoldEverywhere'
    BY <1>2, <1>g DEF SweepNext, GatesHoldEverywhere
  <2>4. FailureReported'
    BY <1>2 DEF SweepNext, FailureReported
  <2> QED BY <2>2, <2>3, <2>4
<1>3. CASE StartSweep \/ NextRound
  <2>1. pc' = "next" /\ ran' = ran
    BY <1>3 DEF StartSweep, NextRound
  <2>2. ChosenUngated' /\ FailureReported'
    BY <2>1 DEF ChosenUngated, FailureReported
  <2>3. GatesHoldEverywhere'
    BY <2>1, <1>g DEF GatesHoldEverywhere
  <2> QED BY <2>2, <2>3
<1>4. CASE Query \/ Transform \/ Rescan
  <2>1. /\ pc \in {"query", "transform", "rescan"} /\ pc' # "done"
        /\ sweep' = sweep /\ at' = at /\ ci' = ci /\ ran' = ran
    BY <1>4 DEF Query, Transform, Rescan
  <2>2. ChosenUngated'
    BY <2>1, <1>g, SamePlaceSamePass DEF ChosenUngated
  <2>3. GatesHoldEverywhere' /\ FailureReported'
    BY <2>1, <1>g DEF GatesHoldEverywhere, FailureReported
  <2> QED BY <2>2, <2>3
<1>5. CASE Settle
  <2>1. ChosenUngated /\ pc = "settle" /\ ran' = ran \cup {Pass}
    BY <1>5 DEF Settle
  <2>2. ChosenUngated'
    <3>1. pc' \in {"done", "next"}
      BY <1>5 DEF Settle
    <3> QED BY <3>1 DEF ChosenUngated
  <2>3. GatesHoldEverywhere'
    BY <2>1, <1>g DEF ChosenUngated, GatesHoldEverywhere
  <2>4. FailureReported'
    <3>1. pc' = "done" => result' = FALSE
      BY <1>5 DEF Settle
    <3> QED BY <3>1 DEF FailureReported
  <2> QED BY <2>2, <2>3, <2>4
<1>6. CASE Finish
  <2>1. pc' = "done" /\ ran' = ran /\ errors' = errors /\ result' = ~errors
    BY <1>6 DEF Finish
  <2>2. ChosenUngated' /\ FailureReported'
    BY <2>1 DEF ChosenUngated, FailureReported
  <2>3. GatesHoldEverywhere'
    BY <2>1, <1>g DEF GatesHoldEverywhere
  <2> QED BY <2>2, <2>3
<1>7. CASE Done \/ UNCHANGED vars
  <2>1. UNCHANGED vars
    BY <1>7 DEF Done
  <2>2. /\ pc' = pc /\ ran' = ran /\ errors' = errors /\ result' = result
        /\ sweep' = sweep /\ at' = at /\ ci' = ci
    BY <2>1 DEF vars
  <2> QED BY <2>2, <1>g, SamePlaceSamePass
       DEF ChosenUngated, GatesHoldEverywhere, FailureReported
<1> QED BY <1>1, <1>2, <1>3, <1>4, <1>5, <1>6, <1>7 DEF Next

\* The invariant holds in every state PassManager::run can reach.
THEOREM Invariance == Spec => []IInv
<1>1. Init => IInv
  BY InitHolds
<1>2. IInv /\ [Next]_vars => IInv'
  BY StepHolds
<1> QED BY <1>1, <1>2, PTL DEF Spec

\* No pass that the user killed, or that mode or level forbid, ever runs.
THEOREM GatesHold == Spec => []GatesHoldEverywhere
<1>1. IInv => GatesHoldEverywhere
  BY DEF IInv
<1> QED BY <1>1, Invariance, PTL

\* No pipeline that met a verification failure reports success.
THEOREM FailuresReported == Spec => []FailureReported
<1>1. IInv => FailureReported
  BY DEF IInv
<1> QED BY <1>1, Invariance, PTL

-----------------------------------------------------------------------------
(* The plan is a permutation of the catalog, sorted by stage and slot.     *)

\* The sort key of build_default_pipeline orders the catalog without ties.
LEMMA BeforeIsOrder ==
  ASSUME NEW a \in Orders, NEW b \in Orders, NEW c \in Orders
  PROVE  /\ ~Before(a, a)
         /\ Before(a, b) /\ Before(b, c) => Before(a, c)
         /\ a = b \/ Before(a, b) \/ Before(b, a)
<1>1. \A o \in Orders : ExecKey(o) \in Int
  BY DEF ExecKey, Orders
<1>2. \A o, u \in Orders : ExecKey(o) = ExecKey(u) => o = u
  BY DEF ExecKey, Orders
<1> QED BY <1>1, <1>2 DEF Before

\* The passes ahead of o in the plan, and o's place in it.
Ahead(o) == {u \in Orders : Before(u, o)}
Place(o) == 1 + Cardinality(Ahead(o))

\* The 92 passes.
LEMMA OrdersFinite == IsFiniteSet(Orders) /\ Cardinality(Orders) = 92
<1>1. \A n \in Int : n >= 1 => IsFiniteSet(1 .. n) /\ Cardinality(1 .. n) = n
  <2> TAKE n \in Int
  <2>1. IsFiniteSet(1 .. n) /\ Cardinality(1 .. n) = IF 1 > n THEN 0 ELSE n - 1 + 1
    BY FS_Interval
  <2> QED BY <2>1
<1>2. 92 \in Int /\ 92 >= 1
  OBVIOUS
<1> QED BY <1>1, <1>2, Zenon DEF Orders

\* Every place is one of the plan's.
LEMMA PlaceType == ASSUME NEW o \in Orders
                   PROVE  /\ IsFiniteSet(Ahead(o)) /\ Cardinality(Ahead(o)) \in Nat
                          /\ Place(o) \in Orders
<1>1. Ahead(o) \subseteq Orders \ {o}
  BY BeforeIsOrder DEF Ahead
<1>2. IsFiniteSet(Orders \ {o}) /\ Cardinality(Orders \ {o}) = 91
  BY OrdersFinite, FS_RemoveElement
<1>3. /\ IsFiniteSet(Ahead(o)) /\ Cardinality(Ahead(o)) <= 91
  BY <1>1, <1>2, FS_Subset
<1>4. Cardinality(Ahead(o)) \in Nat
  BY <1>3, FS_CardinalityType
<1> QED BY <1>3, <1>4 DEF Place, Orders

\* A pass that comes before another has a lower place...
LEMMA PlaceMonotone ==
  ASSUME NEW a \in Orders, NEW b \in Orders, Before(a, b)
  PROVE  Place(a) < Place(b)
<1>1. Ahead(a) \subseteq Ahead(b) /\ a \in Ahead(b) /\ a \notin Ahead(a)
  BY BeforeIsOrder DEF Ahead
<1>2. IsFiniteSet(Ahead(b)) /\ Cardinality(Ahead(a)) \in Nat /\ Cardinality(Ahead(b)) \in Nat
  BY PlaceType
<1>3. Cardinality(Ahead(a)) <= Cardinality(Ahead(b)) /\ Cardinality(Ahead(a)) # Cardinality(Ahead(b))
  BY <1>1, <1>2, FS_Subset
<1> QED BY <1>2, <1>3 DEF Place

\* ... so no two share one ...
LEMMA PlaceInjective ==
  ASSUME NEW a \in Orders, NEW b \in Orders, Place(a) = Place(b)
  PROVE  a = b
<1>1. Place(a) \in Int
  BY PlaceType DEF Orders
<1>2. ~(Place(a) < Place(b)) /\ ~(Place(b) < Place(a))
  BY <1>1
<1> QED BY <1>2, PlaceMonotone, BeforeIsOrder

\* ... and every place is taken.
LEMMA PlaceOnto == \A i \in Orders : \E o \in Orders : Place(o) = i
<1> DEFINE f == [o \in Orders |-> Place(o)]
<1>1. f \in [Orders -> Orders]
  BY PlaceType
<1>2. \A a, b \in Orders : f[a] = f[b] => a = b
  BY PlaceInjective
<1>3. f \in Injection(Orders, Orders)
  <2> HIDE DEF f
  <2> QED BY <1>1, <1>2 DEF Injection, IsInjective
<1>4. f \in Surjection(Orders, Orders)
  <2> HIDE DEF f
  <2> QED BY <1>3, OrdersFinite, FS_Injection
<1> QED BY <1>4 DEF Surjection

\* The plan holds every pass once, at its place.
LEMMA PlanSorted ==
  /\ \A i \in Orders : Plan[i] \in Orders /\ Place(Plan[i]) = i
  /\ \A o \in Orders : Plan[Place(o)] = o
<1> DEFINE rank == [o \in Orders |-> 1 + Cardinality({u \in Orders : Before(u, o)})]
<1>1. \A o \in Orders : rank[o] = Place(o)
  BY DEF Place, Ahead
<1>2. Plan = [i \in Orders |-> CHOOSE o \in Orders : rank[o] = i]
  BY DEF Plan
<1>3. \A i \in Orders : Plan[i] \in Orders /\ Place(Plan[i]) = i
  <2> TAKE i \in Orders
  <2> HIDE DEF rank
  <2>1. Plan[i] = CHOOSE o \in Orders : rank[o] = i
    BY <1>2
  <2>2. \E o \in Orders : rank[o] = i
    BY <1>1, PlaceOnto
  <2> QED BY <1>1, <2>1, <2>2
<1>4. \A a, b \in Orders : Place(a) = Place(b) => a = b
  BY PlaceInjective
<1> QED BY <1>3, <1>4, PlaceType

\* The passes over the graph come first.
LEMMA GraphPassesFirst == \A o \in Orders \ LinearStage : Place(o) <= SonEnd
<1> TAKE o \in Orders \ LinearStage
<1>1. Ahead(o) \subseteq (Orders \ LinearStage) \ {o}
  BY BeforeIsOrder DEF Ahead, Before
<1>2. IsFiniteSet(Orders \ LinearStage)
  BY OrdersFinite, FS_Subset
<1>3. /\ IsFiniteSet((Orders \ LinearStage) \ {o})
      /\ Cardinality((Orders \ LinearStage) \ {o}) = SonEnd - 1
  BY <1>2, FS_RemoveElement DEF SonEnd
<1>4. Cardinality(Ahead(o)) <= SonEnd - 1
  BY <1>1, <1>3, FS_Subset
<1>5. Cardinality(Ahead(o)) \in Nat /\ SonEnd \in Nat
  BY PlaceType, <1>2, FS_CardinalityType DEF SonEnd
<1> QED BY <1>4, <1>5 DEF Place

-----------------------------------------------------------------------------
(* Where the scheduler stands, and what the cache can hold there.          *)

\* A pass has been chosen and is not yet recorded.
Under == {"query", "transform", "rescan", "settle"}

\* The main run has put pass o behind it.
Behind(o) == /\ at \in Orders
             /\ \/ Before(o, Plan[at])
                \/ Plan[at] = o /\ (pc \notin Under \/ sweep > 0)

\* Where the scheduler stands.
WhereItStands ==
  /\ at \in 0 .. 92 /\ sweep \in Nat /\ ci \in 0 .. 15
  /\ sweep > 0 => at = SonEnd
  /\ pc \in Under => IF sweep > 0 THEN ci > 0 ELSE at > 0

\* The states of the cache.  Of the analyses that keep a pointer into another, the
\* loops go with their dominator tree, but pass 54 or 58 may take alias
\* analysis away from under memory dependence.
CacheOK == /\ cache \in [Kinds -> {"none", "fresh", "stale"}]
           /\ severed \subseteq {"memdep"}

\* Memory dependence outlives dead store elimination, which drops it, only if
\* that pass is gated.
OutlivesDse == cache["memdep"] # "none" /\ Behind(23) =>
                 ShouldSkip(23) \/ (sweep > 0 /\ pc \in Under /\ Pass = 23)
\* An analysis loses its input only late, and only if 23 is gated.
SeveredLate == severed # {} => Behind(23) /\ ShouldSkip(23)

\* What is kept of memory dependence.
MemDepInv == WhereItStands /\ CacheOK /\ OutlivesDse /\ SeveredLate /\ NoSeveredAnalysis

\* The passes that leave the dominator tree of an older graph in the cache, 50
\* and 56, are followed by passes that drop it, 53 and 57.
DropsFollow == /\ ShouldSkip(53) => ShouldSkip(50)
               /\ ShouldSkip(57) => ShouldSkip(56)

\* A dominator tree of an older graph is cached only until the pass under way is
\* recorded, or until 53 or 57 runs.
StaleIsDropped ==
  cache["dom"] = "stale" =>
     \/ pc \in {"rescan", "settle"} /\ "dom" \in Invalidates(Pass)
     \/ ~Behind(53) /\ ~ShouldSkip(50)
     \/ ~Behind(57) /\ ~ShouldSkip(56)

\* What is kept of the tree.
FreshInv == DropsFollow => StaleIsDropped /\ LoweringSeesFreshTree

-----------------------------------------------------------------------------
(* Facts about the catalog.                                                *)

\* The masks take the loops with their dominator tree; only 54 and 58 take
\* alias analysis and leave memory dependence; 20, 22 and 23 alone ask for memory
\* dependence; and of the passes that reshape the graph only 50 and 56 keep the tree.
LEMMA CatalogFacts ==
  ASSUME NEW o \in Orders
  PROVE  /\ "dom" \in Invalidates(o) => "loop" \in Invalidates(o)
         /\ "alias" \in Invalidates(o) /\ "memdep" \notin Invalidates(o) => o \in {54, 58}
         /\ "memdep" \in Queries(o) => o \in {20, 22, 23}
         /\ Reshapes(o) => "dom" \in Invalidates(o) \/ o \in {50, 56}
BY DEF Orders, Invalidates, Queries, Reshapes, Kinds, ControlMask, AliasMask, MemDepMask, WholeGraph

\* The passes the argument turns on, their masks ...
LEMMA MaskFacts ==
  /\ "memdep" \in Invalidates(23) /\ "dom" \in Invalidates(53) /\ "dom" \in Invalidates(57)
  /\ Queries(83) = {"dom"}
BY DEF Invalidates, Queries, Kinds, ControlMask, MemDepMask

\* ... and their slots.
LEMMA SlotFacts ==
  /\ \A o \in {20, 22} : Before(o, 23)
  /\ \A o \in {54, 58} : Before(23, o)
  /\ Before(50, 53) /\ Before(56, 57) /\ Before(53, 57)
  /\ Before(23, 57) /\ Before(57, 58) /\ Before(53, 83) /\ Before(57, 83)
  /\ {20, 22, 23, 50, 53, 54, 56, 57, 58, 83} \subseteq Orders
  /\ {23, 53, 57, 58} \cap LinearStage = {}
BY DEF Before, ExecKey, LinearStage, Orders

\* None of them but 23 and 54, 58 is in the cleanup list.
LEMMA CleanupFacts ==
  /\ Len(CleanupOrders) = 15
  /\ \A c \in 1 .. 15 : CleanupOrders[c] \in Orders \ {20, 22, 50, 53, 56, 57, 83}
BY DEF CleanupOrders, Orders

\* The cleanup sweep has every pass over the graph behind it.
LEMMA BehindInSweep ==
  ASSUME WhereItStands, sweep > 0
  PROVE  Behind(23) /\ Behind(53) /\ Behind(57)
<1>1. at = SonEnd /\ at \in 0 .. 92
  BY DEF WhereItStands
<1>2. Place(58) <= SonEnd /\ Place(58) \in Orders
  BY GraphPassesFirst, SlotFacts, PlaceType
<1>3. at \in Orders
  BY <1>1, <1>2 DEF Orders
<1>4. Plan[at] \in Orders /\ Place(Plan[at]) = at
  BY <1>3, PlanSorted
<1>5. Plan[at] = 58 \/ Before(58, Plan[at])
  <2>1. CASE Before(Plan[at], 58)
    <3>1. Place(Plan[at]) < Place(58)
      BY <1>4, <2>1, PlaceMonotone, SlotFacts
    <3> QED BY <3>1, <1>1, <1>2, <1>4 DEF Orders
  <2> QED BY <2>1, <1>4, BeforeIsOrder, SlotFacts
<1>6. \A o \in {23, 53, 57} : o \in Orders /\ Before(o, 58)
  <2>1. 23 \in Orders /\ 53 \in Orders /\ 57 \in Orders /\ 58 \in Orders
    BY SlotFacts
  <2>2. Before(23, 57) /\ Before(53, 57) /\ Before(57, 58)
    BY SlotFacts
  <2> QED BY <2>1, <2>2, BeforeIsOrder
<1>7. \A o \in {23, 53, 57} : Before(o, Plan[at])
  BY <1>4, <1>5, <1>6, SlotFacts, BeforeIsOrder
<1> QED BY <1>3, <1>7 DEF Behind

\* One pass further on, the pass gone by is the only one more behind.
LEMMA BehindAdvances ==
  ASSUME WhereItStands, pc = "next", sweep = 0, sweep' = 0, at' = at + 1, at + 1 \in Orders,
         NEW o \in Orders, Behind(o)'
  PROVE  Behind(o) \/ (Plan[at + 1] = o /\ pc' \notin Under)
<1>1. at \in 0 .. 92 /\ at + 1 \in Orders
  BY DEF WhereItStands
<1>2. Plan' = Plan
  BY DEF Plan
<1>3. Before(o, Plan[at + 1]) \/ (Plan[at + 1] = o /\ pc' \notin Under)
  BY DEF Behind
<1>4. ASSUME Before(o, Plan[at + 1]) PROVE Behind(o)
  <2>1. Plan[at + 1] \in Orders /\ Place(Plan[at + 1]) = at + 1
    BY <1>1, PlanSorted
  <2>2. Place(o) < at + 1 /\ Place(o) \in Orders /\ Plan[Place(o)] = o
    BY <1>4, <2>1, PlaceMonotone, PlaceType, PlanSorted
  <2>3. at \in Orders /\ Place(o) <= at
    BY <1>1, <2>2 DEF Orders
  <2>4. Plan[at] \in Orders /\ Place(Plan[at]) = at
    BY <2>3, PlanSorted
  <2>5. ~Before(Plan[at], o)
    <3>1. Before(Plan[at], o) => Place(Plan[at]) < Place(o)
      BY <2>4, PlaceMonotone
    <3> QED BY <3>1, <2>2, <2>3, <2>4 DEF Orders
  <2>6. Plan[at] = o \/ Before(o, Plan[at])
    BY <2>4, <2>5, BeforeIsOrder
  <2>7. pc \notin Under
    BY DEF Under
  <2> QED BY <2>3, <2>6, <2>7 DEF Behind
<1> QED BY <1>3, <1>4

\* What is behind stays behind.
LEMMA BehindStays ==
  ASSUME at \in Orders, at + 1 \in Orders, at' = at + 1, NEW o \in Orders, Behind(o)
  PROVE  Behind(o)'
<1>1. Plan' = Plan
  BY DEF Plan
<1>2. /\ Plan[at] \in Orders /\ Place(Plan[at]) = at
      /\ Plan[at + 1] \in Orders /\ Place(Plan[at + 1]) = at + 1
  BY PlanSorted
<1>3. Before(Plan[at], Plan[at + 1])
  <2>1. ~Before(Plan[at + 1], Plan[at])
    <3>1. Before(Plan[at + 1], Plan[at]) => Place(Plan[at + 1]) < Place(Plan[at])
      BY <1>2, PlaceMonotone
    <3> QED BY <3>1, <1>2 DEF Orders
  <2>2. Plan[at + 1] # Plan[at]
    BY <1>2 DEF Orders
  <2> QED BY <2>1, <2>2, <1>2, BeforeIsOrder
<1>4. Before(o, Plan[at]) \/ Plan[at] = o
  BY DEF Behind
<1>5. Before(o, Plan[at + 1])
  BY <1>2, <1>3, <1>4, BeforeIsOrder
<1> QED BY <1>1, <1>5 DEF Behind

\* The pass under way is one of the catalog; in the main run it is not behind.
LEMMA PassUnderWay ==
  ASSUME WhereItStands, pc \in Under
  PROVE  /\ Pass \in Orders
         /\ sweep = 0 => at \in Orders /\ Pass = Plan[at]
         /\ sweep > 0 => Pass \notin {20, 22, 50, 53, 56, 57, 83}
         /\ sweep = 0 => \A o \in Orders : Behind(o) <=> Before(o, Pass)
<1>1. CASE sweep = 0
  <2>1. at \in Orders
    BY <1>1 DEF WhereItStands, Orders
  <2>2. Pass = Plan[at] /\ Plan[at] \in Orders
    BY <1>1, <2>1, PlanSorted DEF Pass
  <2> QED BY <1>1, <2>1, <2>2 DEF Behind
<1>2. CASE sweep > 0
  <2>1. Pass = CleanupOrders[ci] /\ ci \in 1 .. 15
    BY <1>2 DEF Pass, WhereItStands
  <2> QED BY <1>2, <2>1, CleanupFacts
<1> QED BY <1>1, <1>2 DEF WhereItStands

-----------------------------------------------------------------------------
(* The invariants.                                                         *)

\* The scheduler stays within the plan and the cleanup list.
LEMMA PlaceStep == WhereItStands /\ [Next]_vars => WhereItStands'
<1> SUFFICES ASSUME WhereItStands, [Next]_vars PROVE WhereItStands'
  OBVIOUS
<1> USE DEF WhereItStands, Under
<1>0. SonEnd' = SonEnd /\ Len(CleanupOrders) = 15 /\ Cardinality(Orders) = 92
  BY CleanupFacts, OrdersFinite DEF SonEnd
<1>1. CASE MainNext
  BY <1>0, <1>1 DEF MainNext
<1>2. CASE StartSweep
  BY <1>0, <1>2 DEF StartSweep
<1>3. CASE SweepNext
  BY <1>0, <1>3 DEF SweepNext
<1>4. CASE NextRound
  BY <1>0, <1>4 DEF NextRound
<1>5. CASE Query \/ Rescan \/ Transform
  BY <1>0, <1>5 DEF Query, Rescan, Transform
<1>6. CASE Settle
  BY <1>0, <1>6 DEF Settle
<1>7. CASE Finish
  BY <1>0, <1>7 DEF Finish
<1>8. CASE Done \/ UNCHANGED vars
  BY <1>0, <1>8 DEF Done, vars
<1> QED BY <1>1, <1>2, <1>3, <1>4, <1>5, <1>6, <1>7, <1>8 DEF Next

\* What is served is in a state the cache can be in, and what was not cached and is
\* not asked for, itself or for another analysis, stays out.
LEMMA ServedFacts ==
  ASSUME CacheOK, NEW K \in SUBSET Kinds
  PROVE  /\ Served(K) \in [Kinds -> {"none", "fresh", "stale"}]
         /\ Served(K)["memdep"] # "none" => cache["memdep"] # "none" \/ "memdep" \in K
         /\ Served(K)["dom"] = "stale" => cache["dom"] = "stale"
<1>1. Served(K) \in [Kinds -> {"none", "fresh", "stale"}]
  BY DEF CacheOK, Served
<1>2. "memdep" \in Wanted(K) => "memdep" \in K
  BY DEF Wanted, Needs
<1>3. Needs("dom") = {}
  BY DEF Needs
<1> QED BY <1>1, <1>2, <1>3 DEF CacheOK, Served, Kinds

\* Nothing is cached at the start.
LEMMA MemDepInit == Init => MemDepInv
<1> SUFFICES ASSUME Init PROVE MemDepInv
  OBVIOUS
<1>1. SonEnd \in Nat
  BY OrdersFinite, FS_Subset, FS_CardinalityType DEF SonEnd
<1> QED BY <1>1 DEF Init, MemDepInv, WhereItStands, CacheOK, OutlivesDse, SeveredLate,
                    NoSeveredAnalysis, Under, Kinds

\* A step that serves no analysis and changes no cache keeps what the invariant says,
\* if no pass more is behind it, or only one that is gated.
LEMMA SameCache ==
  ASSUME MemDepInv, WhereItStands', UNCHANGED <<opts, cache, severed, seen>>,
         pc \notin Under,
         Behind(23)' => Behind(23) \/ ShouldSkip(23),
         Behind(23) => Behind(23)'
  PROVE  MemDepInv'
<1>1. ShouldSkip(23)' <=> ShouldSkip(23)
  BY SameOptionsSameGates
<1>2. CacheOK' /\ NoSeveredAnalysis'
  BY DEF MemDepInv, CacheOK, NoSeveredAnalysis
<1>3. OutlivesDse' /\ SeveredLate'
  BY <1>1 DEF MemDepInv, OutlivesDse, SeveredLate
<1> QED BY <1>2, <1>3 DEF MemDepInv

\* Every step keeps what is said of memory dependence.
LEMMA MemDepStep == ASSUME IInv, MemDepInv, [Next]_vars PROVE MemDepInv'
<1>o. opts' = opts
  BY DEF Next, vars, MainNext, StartSweep, SweepNext, NextRound, Query, Transform, Rescan,
         Settle, Finish, Done
<1>s. ShouldSkip(23)' <=> ShouldSkip(23)
  BY <1>o, SameOptionsSameGates
<1>w. WhereItStands /\ WhereItStands'
  BY PlaceStep DEF MemDepInv
<1>1. CASE MainNext
  <2>1. /\ pc = "next" /\ sweep = 0 /\ sweep' = 0 /\ at' = at + 1
        /\ UNCHANGED <<opts, cache, severed, seen>>
        /\ pc' = IF ShouldSkip(Plan[at + 1]) THEN "next" ELSE "query"
        /\ at + 1 \in Orders
    BY <1>1, <1>w, OrdersFinite DEF MainNext, WhereItStands, Orders
  <2>2. Behind(23)' => Behind(23) \/ ShouldSkip(23)
    <3>1. pc' \notin Under => ShouldSkip(Plan[at + 1])
      BY <2>1 DEF Under
    <3> QED BY <2>1, <3>1, <1>w, SlotFacts, BehindAdvances
  <2>3. Behind(23) => Behind(23)'
    BY <2>1, SlotFacts, BehindStays DEF Behind
  <2>4. pc \notin Under
    BY <2>1 DEF Under
  <2> QED BY <2>1, <2>2, <2>3, <2>4, <1>w, SameCache
<1>2. CASE StartSweep \/ SweepNext \/ NextRound \/ Finish
  <2>1. /\ pc = "next" /\ at' = at /\ UNCHANGED <<opts, cache, severed, seen>>
    BY <1>2 DEF StartSweep, SweepNext, NextRound, Finish
  <2>2. \/ pc' \notin Under
        \/ sweep > 0 /\ sweep' > 0
    BY <1>2 DEF StartSweep, SweepNext, NextRound, Finish, Under
  <2>3. Behind(23)' <=> Behind(23)
    BY <2>1, <2>2 DEF Behind, Plan, Under
  <2>4. pc \notin Under
    BY <2>1 DEF Under
  <2> QED BY <2>1, <2>3, <2>4, <1>w, SameCache
<1>3. CASE Query
  <2>1. /\ pc = "query" /\ pc' = "transform" /\ Serve(Queries(Pass))
        /\ UNCHANGED <<at, sweep, ci, severed>>
    BY <1>3 DEF Query
  <2>2. Behind(23)' <=> Behind(23)
    BY <2>1 DEF Behind, Plan, Under
  <2>3. Pass' = Pass /\ Pass \in Orders /\ pc \in Under /\ pc' \in Under
    BY <2>1, <1>w, PassUnderWay, SamePlaceSamePass DEF Under
  <2>4. Queries(Pass) \in SUBSET Kinds
    BY DEF Queries
  <2>5. CacheOK'
    BY <2>1, <2>4, ServedFacts DEF Serve, MemDepInv, CacheOK
  <2>6. "memdep" \in Queries(Pass) =>
           /\ sweep > 0 => Pass = 23
           /\ sweep = 0 => ~Behind(23)
    <3>1. "memdep" \in Queries(Pass) => Pass \in {20, 22, 23}
      BY <2>3, CatalogFacts
    <3>2. ~Before(23, 20) /\ ~Before(23, 22) /\ ~Before(23, 23)
      BY SlotFacts, BeforeIsOrder
    <3> QED BY <2>3, <3>1, <3>2, <1>w, PassUnderWay, SlotFacts
  <2>7. OutlivesDse'
    <3>1. cache'["memdep"] # "none" => cache["memdep"] # "none" \/ "memdep" \in Queries(Pass)
      BY <2>1, <2>4, ServedFacts DEF Serve, MemDepInv
    <3> QED BY <3>1, <2>1, <2>2, <2>3, <2>6, <1>s, <1>w DEF MemDepInv, OutlivesDse, WhereItStands
  <2>8. SeveredLate'
    BY <2>1, <2>2, <1>s DEF MemDepInv, SeveredLate
  <2>9. NoSeveredAnalysis'
    <3>1. \A k \in Queries(Pass) : Served(Queries(Pass))[k] # "severed"
      BY <2>4, ServedFacts DEF MemDepInv
    <3>2. Queries(Pass) \cap severed = {}
      <4> SUFFICES ASSUME Queries(Pass) \cap severed # {} PROVE FALSE
        OBVIOUS
      <4>1. "memdep" \in Queries(Pass) /\ Behind(23) /\ ShouldSkip(23)
        BY DEF MemDepInv, CacheOK, SeveredLate
      <4>2. Pass = 23
        BY <4>1, <2>6, <1>w DEF WhereItStands
      <4>3. ~ShouldSkip(Pass)
        BY <2>1 DEF IInv, ChosenUngated
      <4> QED BY <4>1, <4>2, <4>3
    <3> QED BY <2>1, <3>1, <3>2 DEF Serve, NoSeveredAnalysis
  <2> QED BY <1>w, <2>5, <2>7, <2>8, <2>9 DEF MemDepInv
<1>4. CASE Transform
  <2>1. /\ pc = "transform" /\ pc' \in Under /\ UNCHANGED <<at, sweep, ci, severed, seen>>
        /\ cache' = [k \in Kinds |-> IF changed' /\ k \in {"dom", "loop", "prob"}
                                     THEN Aged(cache[k]) ELSE cache[k]]
    BY <1>4 DEF Transform, Under
  <2>2. Behind(23)' <=> Behind(23)
    BY <2>1 DEF Behind, Plan, Under
  <2>3. Pass' = Pass /\ pc \in Under
    BY <2>1, SamePlaceSamePass DEF Under
  <2>4. CacheOK' /\ cache'["memdep"] = cache["memdep"]
    BY <2>1 DEF MemDepInv, CacheOK, Aged, Kinds
  <2>5. OutlivesDse' /\ SeveredLate' /\ NoSeveredAnalysis'
    BY <2>1, <2>2, <2>3, <2>4, <1>s DEF MemDepInv, OutlivesDse, SeveredLate, NoSeveredAnalysis
  <2> QED BY <1>w, <2>4, <2>5 DEF MemDepInv
<1>5. CASE Rescan
  <2>1. /\ pc = "rescan" /\ pc' = "settle" /\ Serve({"dom"})
        /\ UNCHANGED <<at, sweep, ci, severed>>
    BY <1>5 DEF Rescan
  <2>2. Behind(23)' <=> Behind(23)
    BY <2>1 DEF Behind, Plan, Under
  <2>3. Pass' = Pass /\ pc \in Under /\ pc' \in Under
    BY <2>1, SamePlaceSamePass DEF Under
  <2>4. /\ Served({"dom"}) \in [Kinds -> {"none", "fresh", "stale"}]
        /\ Served({"dom"})["memdep"] # "none" => cache["memdep"] # "none"
    <3>1. {"dom"} \in SUBSET Kinds /\ "memdep" \notin {"dom"}
      BY DEF Kinds
    <3> QED BY <3>1, ServedFacts DEF MemDepInv
  <2>5. CacheOK' /\ OutlivesDse' /\ SeveredLate'
    BY <2>1, <2>2, <2>3, <2>4, <1>s DEF Serve, MemDepInv, CacheOK, OutlivesDse, SeveredLate
  <2>6. NoSeveredAnalysis'
    <3>1. {"dom"} \cap severed = {} /\ "dom" \in Kinds
      BY DEF MemDepInv, CacheOK, Kinds
    <3> QED BY <2>1, <2>4, <3>1 DEF Serve, NoSeveredAnalysis
  <2> QED BY <1>w, <2>5, <2>6 DEF MemDepInv
<1>6. CASE Settle
  <2> DEFINE gone == Invalidates(Pass)
             cut == {h[1] : h \in {x \in Holds : x[2] \in gone /\ cache[x[1]] # "none"}}
  <2>1. /\ pc = "settle" /\ pc' \notin Under /\ UNCHANGED <<at, sweep>>
        /\ cache' = [k \in Kinds |-> IF k \in gone THEN "none" ELSE cache[k]]
        /\ severed' = (severed \cup cut) \ gone
        /\ seen' = {}
    BY <1>6 DEF Settle, Under
  <2>2. pc \in Under /\ Pass \in Orders
    BY <2>1, <1>w, PassUnderWay DEF Under
  <2>3. ("loop" \in cut => "loop" \in gone) /\ cut \subseteq {"loop", "memdep"}
    BY <2>2, CatalogFacts DEF Holds
  <2>4. CacheOK'
    BY <2>1, <2>3 DEF MemDepInv, CacheOK
  <2>5. Behind(23)' => Behind(23) \/ Pass = 23
    <3>1. Plan' = Plan
      BY DEF Plan
    <3> QED BY <2>1, <2>2, <3>1, <1>w, PassUnderWay DEF Behind, WhereItStands
  <2>6. Behind(23) => Behind(23)'
    BY <2>1 DEF Behind, Plan
  <2>7. cache'["memdep"] # "none" => cache["memdep"] # "none" /\ Pass # 23
    BY <2>1, MaskFacts DEF Kinds
  <2>8. OutlivesDse'
    BY <2>5, <2>7, <1>s DEF MemDepInv, OutlivesDse
  <2>9. SeveredLate'
    <3> SUFFICES ASSUME severed' # {} PROVE Behind(23) /\ ShouldSkip(23)
      BY <2>6, <1>s DEF SeveredLate
    <3>1. CASE severed # {}
      BY <3>1 DEF MemDepInv, SeveredLate
    <3>2. CASE severed = {}
      <4>1. "memdep" \in cut /\ "memdep" \notin gone
        BY <2>1, <2>3, <3>2
      <4>2. "alias" \in gone /\ cache["memdep"] # "none"
        BY <4>1 DEF Holds
      <4>3. Pass \in {54, 58}
        BY <4>1, <4>2, <2>2, CatalogFacts
      <4>4. Behind(23)
        BY <4>3, <2>2, <1>w, PassUnderWay, SlotFacts, BehindInSweep DEF WhereItStands
      <4> QED BY <4>2, <4>3, <4>4 DEF MemDepInv, OutlivesDse
    <3> QED BY <3>1, <3>2
  <2> QED BY <1>w, <2>1, <2>4, <2>8, <2>9 DEF MemDepInv, NoSeveredAnalysis
<1>7. CASE Done \/ UNCHANGED vars
  <2>1. UNCHANGED <<opts, pc, at, sweep, ci, cache, severed, seen>>
    BY <1>7 DEF Done, vars
  <2>2. Behind(23)' <=> Behind(23)
    BY <2>1 DEF Behind, Plan, Under
  <2> QED BY <2>1, <2>2, <1>s, <1>w, SamePlaceSamePass
       DEF MemDepInv, CacheOK, OutlivesDse, SeveredLate, NoSeveredAnalysis
<1> QED BY <1>1, <1>2, <1>3, <1>4, <1>5, <1>6, <1>7 DEF Next

\* A stale tree stays accounted for by a step that makes none stale, if the pass
\* that will drop it is still under way and no pass 53 or 57 goes by ungated.
LEMMA FreshKept ==
  ASSUME StaleIsDropped, opts' = opts, cache'["dom"] = "stale" => cache["dom"] = "stale",
         pc \in {"rescan", "settle"} /\ "dom" \in Invalidates(Pass) /\ cache'["dom"] = "stale" =>
           pc' \in {"rescan", "settle"} /\ Pass' = Pass,
         Behind(53)' /\ cache'["dom"] = "stale" => Behind(53) \/ ShouldSkip(50),
         Behind(57)' /\ cache'["dom"] = "stale" => Behind(57) \/ ShouldSkip(56)
  PROVE  StaleIsDropped'
<1>1. (ShouldSkip(50)' <=> ShouldSkip(50)) /\ (ShouldSkip(56)' <=> ShouldSkip(56))
  BY SameOptionsSameGates
<1>2. ASSUME Pass' = Pass PROVE Invalidates(Pass)' = Invalidates(Pass)
  BY <1>2 DEF Invalidates
<1> QED BY <1>1, <1>2 DEF StaleIsDropped

\* No tree is stale at the start.
LEMMA FreshInit == Init => FreshInv
<1>1. Init => cache["dom"] = "none" /\ pc = "next"
  BY DEF Init, Kinds
<1> QED BY <1>1 DEF FreshInv, StaleIsDropped, LoweringSeesFreshTree

\* Every step keeps what is said of the dominator tree.
LEMMA FreshStep == ASSUME IInv, MemDepInv, FreshInv, [Next]_vars PROVE FreshInv'
<1>o. opts' = opts
  BY DEF Next, vars, MainNext, StartSweep, SweepNext, NextRound, Query, Transform, Rescan,
         Settle, Finish, Done
<1>s. \A o \in Orders : ShouldSkip(o)' <=> ShouldSkip(o)
  BY <1>o, SameOptionsSameGates
<1>w. WhereItStands /\ WhereItStands' /\ CacheOK
  BY PlaceStep DEF MemDepInv
<1> SUFFICES ASSUME DropsFollow PROVE StaleIsDropped' /\ LoweringSeesFreshTree'
  BY <1>s, SlotFacts DEF FreshInv, DropsFollow
<1>f. StaleIsDropped /\ LoweringSeesFreshTree
  BY DEF FreshInv
<1>1. CASE MainNext
  <2>1. /\ pc = "next" /\ sweep = 0 /\ sweep' = 0 /\ at' = at + 1
        /\ UNCHANGED cache
        /\ pc' = IF ShouldSkip(Plan[at + 1]) THEN "next" ELSE "query"
        /\ at + 1 \in Orders
    BY <1>1, <1>w, OrdersFinite DEF MainNext, WhereItStands, Orders
  <2>2. \A o \in {53, 57} : Behind(o)' => Behind(o) \/ ShouldSkip(o)
    <3>1. pc' \notin Under => ShouldSkip(Plan[at + 1])
      BY <2>1 DEF Under
    <3> QED BY <2>1, <3>1, <1>w, SlotFacts, BehindAdvances
  <2>3. StaleIsDropped'
    BY <2>1, <2>2, <1>f, <1>o, FreshKept DEF DropsFollow
  <2> QED BY <2>1, <2>3 DEF LoweringSeesFreshTree
<1>2. CASE StartSweep \/ SweepNext \/ NextRound \/ Finish
  <2>1. /\ pc = "next" /\ pc' # "transform" /\ at' = at /\ UNCHANGED cache
    BY <1>2 DEF StartSweep, SweepNext, NextRound, Finish
  <2>2. pc' \notin Under \/ (sweep > 0 /\ sweep' > 0)
    BY <1>2 DEF StartSweep, SweepNext, NextRound, Finish, Under
  <2>3. (Behind(53)' <=> Behind(53)) /\ (Behind(57)' <=> Behind(57))
    BY <2>1, <2>2 DEF Behind, Plan, Under
  <2>4. StaleIsDropped'
    BY <2>1, <2>3, <1>f, <1>o, FreshKept
  <2> QED BY <2>1, <2>4 DEF LoweringSeesFreshTree
<1>3. CASE Query
  <2>1. /\ pc = "query" /\ pc' = "transform" /\ Serve(Queries(Pass))
        /\ UNCHANGED <<at, sweep, ci>>
    BY <1>3 DEF Query
  <2>2. (Behind(53)' <=> Behind(53)) /\ (Behind(57)' <=> Behind(57))
    BY <2>1 DEF Behind, Plan, Under
  <2>3. Pass' = Pass /\ pc \in Under
    BY <2>1, SamePlaceSamePass DEF Under
  <2>4. Queries(Pass) \in SUBSET Kinds
    BY DEF Queries
  <2>5. cache'["dom"] = "stale" => cache["dom"] = "stale"
    BY <2>1, <2>4, <1>w, ServedFacts DEF Serve
  <2>6. StaleIsDropped'
    BY <2>1, <2>2, <2>5, <1>f, <1>o, FreshKept
  <2>7. Pass = 83 => "stale" \notin seen'
    <3> SUFFICES ASSUME Pass = 83 PROVE "stale" \notin seen'
      OBVIOUS
    <3>1. Behind(53) /\ Behind(57)
      BY <2>3, <1>w, PassUnderWay, SlotFacts DEF WhereItStands
    <3>2. cache["dom"] # "stale"
      BY <3>1, <2>1, <1>f DEF StaleIsDropped
    <3>3. Queries(Pass) = {"dom"}
      BY MaskFacts
    <3>4. Served({"dom"})["dom"] # "stale"
      <4>1. {"dom"} \in SUBSET Kinds
        BY DEF Kinds
      <4> QED BY <3>2, <4>1, <1>w, ServedFacts
    <3> QED BY <2>1, <3>3, <3>4 DEF Serve
  <2> QED BY <2>3, <2>6, <2>7 DEF LoweringSeesFreshTree
<1>4. CASE Transform
  <2>1. /\ pc = "transform" /\ pc' \in {"rescan", "settle"} /\ UNCHANGED <<at, sweep, ci>>
        /\ cache' = [k \in Kinds |-> IF changed' /\ k \in {"dom", "loop", "prob"}
                                     THEN Aged(cache[k]) ELSE cache[k]]
        /\ changed' => Reshapes(Pass)
    BY <1>4 DEF Transform
  <2>2. (Behind(53)' <=> Behind(53)) /\ (Behind(57)' <=> Behind(57))
    BY <2>1 DEF Behind, Plan, Under
  <2>3. Pass' = Pass /\ pc \in Under /\ Pass \in Orders
    BY <2>1, <1>w, SamePlaceSamePass, PassUnderWay DEF Under
  <2>4. cache'["dom"] = IF changed' THEN Aged(cache["dom"]) ELSE cache["dom"]
    BY <2>1 DEF Kinds
  <2>5. StaleIsDropped'
    <3>1. CASE cache["dom"] = "stale" \/ cache'["dom"] # "stale"
      BY <3>1, <2>1, <2>2, <1>f, <1>o, FreshKept
    <3>2. CASE cache["dom"] # "stale" /\ cache'["dom"] = "stale"
      <4>1. Reshapes(Pass)
        BY <3>2, <2>1, <2>4
      <4>2. "dom" \in Invalidates(Pass) \/ Pass \in {50, 56}
        BY <4>1, <2>3, CatalogFacts
      <4>3. Pass = 50 => ~Behind(53) /\ ~ShouldSkip(50)
        <5>1. ~Before(53, 50)
          BY SlotFacts, BeforeIsOrder
        <5>2. ~ShouldSkip(Pass)
          BY <2>1 DEF IInv, ChosenUngated
        <5> QED BY <5>1, <5>2, <2>3, <1>w, PassUnderWay, SlotFacts DEF WhereItStands
      <4>4. Pass = 56 => ~Behind(57) /\ ~ShouldSkip(56)
        <5>1. ~Before(57, 56)
          BY SlotFacts, BeforeIsOrder
        <5>2. ~ShouldSkip(Pass)
          BY <2>1 DEF IInv, ChosenUngated
        <5> QED BY <5>1, <5>2, <2>3, <1>w, PassUnderWay, SlotFacts DEF WhereItStands
      <4>5. Invalidates(Pass)' = Invalidates(Pass)
        BY <2>3 DEF Invalidates
      <4>6. (ShouldSkip(50)' <=> ShouldSkip(50)) /\ (ShouldSkip(56)' <=> ShouldSkip(56))
        BY <1>s, SlotFacts
      <4> QED BY <4>2, <4>3, <4>4, <4>5, <4>6, <2>1, <2>2 DEF StaleIsDropped
    <3> QED BY <3>1, <3>2
  <2> QED BY <2>1, <2>5 DEF LoweringSeesFreshTree
<1>5. CASE Rescan
  <2>1. /\ pc = "rescan" /\ pc' = "settle" /\ Serve({"dom"})
        /\ UNCHANGED <<at, sweep, ci>>
    BY <1>5 DEF Rescan
  <2>2. (Behind(53)' <=> Behind(53)) /\ (Behind(57)' <=> Behind(57))
    BY <2>1 DEF Behind, Plan, Under
  <2>3. Pass' = Pass
    BY <2>1, SamePlaceSamePass
  <2>4. cache'["dom"] = "stale" => cache["dom"] = "stale"
    <3>1. {"dom"} \in SUBSET Kinds
      BY DEF Kinds
    <3> QED BY <2>1, <3>1, <1>w, ServedFacts DEF Serve
  <2>5. StaleIsDropped'
    BY <2>1, <2>2, <2>3, <2>4, <1>f, <1>o, FreshKept
  <2> QED BY <2>1, <2>5 DEF LoweringSeesFreshTree
<1>6. CASE Settle
  <2>1. /\ pc = "settle" /\ pc' \notin Under /\ UNCHANGED <<at, sweep>>
        /\ cache' = [k \in Kinds |-> IF k \in Invalidates(Pass) THEN "none" ELSE cache[k]]
    BY <1>6 DEF Settle, Under
  <2>2. pc \in Under /\ Pass \in Orders
    BY <2>1, <1>w, PassUnderWay DEF Under
  <2>3. cache'["dom"] = "stale" => cache["dom"] = "stale" /\ "dom" \notin Invalidates(Pass)
    BY <2>1 DEF Kinds
  <2>4. \A o \in {53, 57} : Behind(o)' => Behind(o) \/ Pass = o
    <3>1. Plan' = Plan
      BY DEF Plan
    <3> QED BY <2>1, <2>2, <3>1, <1>w, PassUnderWay DEF Behind, WhereItStands
  <2>5. \A o \in {53, 57} : Behind(o)' /\ cache'["dom"] = "stale" => Behind(o)
    BY <2>3, <2>4, MaskFacts
  <2>6. StaleIsDropped'
    BY <2>3, <2>5, <1>f, <1>o, FreshKept
  <2> QED BY <2>1, <2>6 DEF LoweringSeesFreshTree, Under
<1>7. CASE Done \/ UNCHANGED vars
  <2>1. UNCHANGED <<opts, pc, at, sweep, ci, cache, seen>>
    BY <1>7 DEF Done, vars
  <2>2. (Behind(53)' <=> Behind(53)) /\ (Behind(57)' <=> Behind(57))
    BY <2>1 DEF Behind, Plan, Under
  <2>3. Pass' = Pass
    BY <2>1, SamePlaceSamePass
  <2>4. StaleIsDropped'
    BY <2>1, <2>2, <2>3, <1>f, <1>o, FreshKept
  <2> QED BY <2>1, <2>3, <2>4, <1>f DEF LoweringSeesFreshTree
<1> QED BY <1>1, <1>2, <1>3, <1>4, <1>5, <1>6, <1>7 DEF Next

-----------------------------------------------------------------------------
(* The theorems about analyses.                                            *)

\* Both hold in every state PassManager::run can reach.
LEMMA CacheInvariance == Spec => [](MemDepInv /\ FreshInv)
<1>1. Init => MemDepInv /\ FreshInv
  BY MemDepInit, FreshInit
<1>2. IInv /\ (MemDepInv /\ FreshInv) /\ [Next]_vars => (MemDepInv /\ FreshInv)'
  BY MemDepStep, FreshStep
<1> QED BY <1>1, <1>2, Invariance, PTL DEF Spec

\* No pass is ever served an analysis that points into one that was dropped, for
\* every set of options: only memory dependence can be left so, by 54 or 58, and then
\* only with 23 gated, after the last other pass that asks for it.
THEOREM NeverSevered == Spec => []NoSeveredAnalysis
<1>1. MemDepInv => NoSeveredAnalysis
  BY DEF MemDepInv
<1> QED BY <1>1, CacheInvariance, PTL

\* The sharp form: lowering sees a fresh tree whenever the passes that drop the tree
\* are gated only where the passes that spoil it are.
THEOREM LoweringIsFreshIf ==
  Spec => [](DropsFollow => LoweringSeesFreshTree)
<1>1. FreshInv => (DropsFollow => LoweringSeesFreshTree)
  BY DEF FreshInv
<1> QED BY <1>1, CacheInvariance, PTL

\* With neither pass killed and no --only list, the gates of 53 and 57 open wherever
\* those of 50 and 56 do: the pairs share their rows of the matrix.
LEMMA EverydayOptions ==
  ASSUME opts.only = {}, {53, 57} \cap opts.off = {}
  PROVE  DropsFollow
<1>1. ShouldSkip(53) => ShouldSkip(50)
  BY DEF ShouldSkip, RunsInMode, LevelRuns, OffAt, Vec, LoopD, ScalarE, NotO0, LinearStage, InlineC, PeakOnly
<1>2. ShouldSkip(57) => ShouldSkip(56)
  BY DEF ShouldSkip, RunsInMode, LevelRuns, OffAt, Vec, LoopD, ScalarE, NotO0, LinearStage, InlineC, PeakOnly
<1> QED BY <1>1, <1>2 DEF DropsFollow

\* Unless a pass is killed that drops the control analyses or the user lists the
\* passes to run, the linearizer's dominator tree is that of the graph it linearizes, at every level and
\* in every mode.
THEOREM LoweringIsFresh ==
  Spec => [](opts.only = {} /\ {53, 57} \cap opts.off = {} => LoweringSeesFreshTree)
<1>1. FreshInv => (opts.only = {} /\ {53, 57} \cap opts.off = {} => LoweringSeesFreshTree)
  BY EverydayOptions DEF FreshInv
<1> QED BY <1>1, CacheInvariance, PTL

-----------------------------------------------------------------------------
(* The order in which passes run.                                          *)

\* A pass begins only when every pass that ran is one that comes before it; in the
\* cleanup sweep, when none of them worked on machine code.
RunsInOrder ==
  pc \in Under => \A o \in ran : IF sweep = 0 THEN Before(o, Pass) ELSE o \notin LinearStage

\* What has run is behind; the sweep runs where all passes over the graph are.
RanBehind == \A o \in ran : o \in Orders /\ Behind(o)

\* At the boundary no pass over machine code is behind.
LEMMA LinearPassesLast ==
  ASSUME at = SonEnd, NEW o \in LinearStage
  PROVE  ~Behind(o)
<1>1. o \in Orders
  BY DEF LinearStage, Orders
<1>2. IsFiniteSet(Ahead(o)) /\ Cardinality(Ahead(o)) \in Nat /\ Place(o) \in Orders
  BY <1>1, PlaceType
<1>3. Orders \ LinearStage \subseteq Ahead(o)
  BY <1>1 DEF Ahead, Before
<1>4. SonEnd <= Cardinality(Ahead(o)) /\ SonEnd \in Nat
  BY <1>2, <1>3, OrdersFinite, FS_Subset, FS_CardinalityType DEF SonEnd
<1>5. Place(o) > SonEnd
  BY <1>2, <1>4 DEF Place
<1>6. ASSUME at \in Orders PROVE Plan[at] \in Orders /\ Place(Plan[at]) = SonEnd
  BY <1>6, PlanSorted
<1>7. ASSUME Behind(o) PROVE FALSE
  <2>1. at \in Orders /\ (Before(o, Plan[at]) \/ Plan[at] = o)
    BY <1>7 DEF Behind
  <2>2. Plan[at] \in Orders /\ Place(Plan[at]) = SonEnd
    BY <1>6, <2>1
  <2>3. Before(o, Plan[at]) => Place(o) < SonEnd
    BY <1>1, <2>2, PlaceMonotone
  <2> QED BY <1>2, <1>4, <1>5, <2>1, <2>2, <2>3 DEF Orders
<1> QED BY <1>7

\* and every pass over the graph is.
LEMMA GraphPassesBehind ==
  ASSUME WhereItStands, sweep > 0, NEW o \in Orders \ LinearStage
  PROVE  Behind(o)
<1>1. at = SonEnd /\ at \in 0 .. 92
  BY DEF WhereItStands
<1>2. Place(o) <= SonEnd /\ Place(o) \in Orders /\ Plan[Place(o)] = o
  BY GraphPassesFirst, PlaceType, PlanSorted
<1>3. at \in Orders
  BY <1>1, <1>2 DEF Orders
<1>4. Plan[at] \in Orders /\ Place(Plan[at]) = SonEnd
  BY <1>1, <1>3, PlanSorted
<1>5. Before(Plan[at], o) => SonEnd < Place(o)
  BY <1>4, PlaceMonotone
<1>6. ~Before(Plan[at], o)
  BY <1>1, <1>2, <1>3, <1>5 DEF Orders
<1>7. Plan[at] = o \/ Before(o, Plan[at])
  BY <1>4, <1>6, BeforeIsOrder
<1> QED BY <1>3, <1>7 DEF Behind

\* The cleanup list holds passes over the graph only.
LEMMA CleanupIsGraph == \A c \in 1 .. 15 : CleanupOrders[c] \in Orders \ LinearStage
BY DEF CleanupOrders, Orders, LinearStage

\* Every step keeps what has run behind.
LEMMA RanStep == ASSUME WhereItStands, RanBehind, [Next]_vars PROVE RanBehind'
<1>w. WhereItStands'
  BY PlaceStep
<1>p. Plan' = Plan
  BY DEF Plan
<1>1. CASE MainNext
  <2>1. /\ pc = "next" /\ sweep = 0 /\ sweep' = 0 /\ at' = at + 1 /\ ran' = ran
        /\ at + 1 \in Orders
    BY <1>1, OrdersFinite DEF MainNext, WhereItStands, Orders
  <2>2. ASSUME NEW o \in ran PROVE o \in Orders /\ Behind(o)'
    BY <2>1, <2>2, BehindStays DEF RanBehind, Behind
  <2> QED BY <2>1, <2>2 DEF RanBehind
<1>2. CASE StartSweep \/ SweepNext \/ NextRound \/ Finish
  <2>1. /\ pc = "next" /\ at' = at /\ ran' = ran
        /\ pc' \notin Under \/ sweep' > 0
    BY <1>2 DEF StartSweep, SweepNext, NextRound, Finish, Under
  <2>2. \A o \in Orders : Behind(o) => Behind(o)'
    BY <2>1, <1>p DEF Behind
  <2> QED BY <2>1, <2>2 DEF RanBehind
<1>3. CASE Query \/ Transform \/ Rescan
  <2>1. /\ pc \in Under /\ UNCHANGED <<at, sweep, ran>>
    BY <1>3 DEF Query, Transform, Rescan, Under
  <2>2. \A o \in Orders : Behind(o) => Behind(o)'
    BY <2>1, <1>p DEF Behind
  <2> QED BY <2>1, <2>2 DEF RanBehind
<1>4. CASE Settle
  <2>1. /\ pc \in Under /\ pc' \notin Under /\ UNCHANGED <<at, sweep>>
        /\ ran' = ran \cup {Pass}
    BY <1>4 DEF Settle, Under
  <2>2. \A o \in Orders : Behind(o) => Behind(o)'
    BY <2>1, <1>p DEF Behind
  <2>3. ASSUME NEW p, p = Pass PROVE p \in Orders /\ Behind(p)'
    <3>1. CASE sweep = 0
      <4>1. p \in Orders /\ at \in Orders /\ p = Plan[at]
        BY <2>1, <2>3, <3>1, PassUnderWay
      <4> QED BY <2>1, <4>1, <1>p DEF Behind
    <3>2. CASE sweep > 0
      <4>1. ci \in 1 .. 15 /\ p = CleanupOrders[ci]
        BY <2>1, <2>3, <3>2 DEF Pass, WhereItStands
      <4>2. p \in Orders \ LinearStage
        BY <4>1, CleanupIsGraph
      <4>3. Behind(p)
        BY <4>2, <3>2, GraphPassesBehind
      <4> QED BY <2>2, <4>2, <4>3
    <3> QED BY <3>1, <3>2 DEF WhereItStands
  <2> QED BY <2>1, <2>2, <2>3 DEF RanBehind
<1>5. CASE Done \/ UNCHANGED vars
  <2>1. UNCHANGED <<at, sweep, pc, ran>>
    BY <1>5 DEF Done, vars
  <2>2. \A o \in Orders : Behind(o) => Behind(o)'
    BY <2>1, <1>p DEF Behind
  <2> QED BY <2>1, <2>2 DEF RanBehind
<1> QED BY <1>1, <1>2, <1>3, <1>4, <1>5 DEF Next

\* In that order the passes run.
LEMMA RanInOrder == ASSUME WhereItStands, RanBehind PROVE RunsInOrder
<1>1. SUFFICES ASSUME pc \in Under, NEW o \in ran
               PROVE  IF sweep = 0 THEN Before(o, Pass) ELSE o \notin LinearStage
  BY DEF RunsInOrder
<1>2. o \in Orders /\ Behind(o)
  BY <1>1 DEF RanBehind
<1>3. CASE sweep = 0
  BY <1>1, <1>2, <1>3, PassUnderWay
<1>4. CASE sweep # 0
  <2>1. at = SonEnd
    BY <1>4 DEF WhereItStands
  <2> QED BY <1>2, <1>4, <2>1, LinearPassesLast
<1> QED BY <1>3, <1>4

\* For every set of options: in the main run a pass begins only after passes that come
\* before it by stage and slot, so none runs twice, and what runs after the cleanup sweep
\* comes after all that ran before or in it; and no sweep touches the graph once a pass
\* has worked on machine code.
THEOREM OrderKept == Spec => []RunsInOrder
<1>1. Init => WhereItStands /\ RanBehind
  <2>1. SonEnd \in Nat
    BY OrdersFinite, FS_Subset, FS_CardinalityType DEF SonEnd
  <2> QED BY <2>1 DEF Init, WhereItStands, RanBehind, Under
<1>2. (WhereItStands /\ RanBehind) /\ [Next]_vars => (WhereItStands /\ RanBehind)'
  BY PlaceStep, RanStep
<1>3. WhereItStands /\ RanBehind => RunsInOrder
  BY RanInOrder
<1> QED BY <1>1, <1>2, <1>3, PTL DEF Spec
=============================================================================
