---------------------------- MODULE RallocProofs ----------------------------
(***************************************************************************)
(* For every problem that honours the target's contract: the allocator     *)
(* never lets two simultaneously live values share a register, never       *)
(* leaves a call-crossing value in a caller-saved one, selects no more     *)
(* than the banks hold, demotes only where a bank is intruded upon, and    *)
(* stops coalescing early only when no move is left.                       *)
(***************************************************************************)
EXTENDS Ralloc, TLAPS, FiniteSetTheorems, FunctionTheorems

-----------------------------------------------------------------------------
(* Facts about ranges.                                                     *)

\* A value is live only inside its hull, counting the segment before a hull
\* that begins on entry to a block (span_of and RaVReg's fields).
LEMMA LiveSegsInHull ==
  ASSUME NEW r, IsRange(r), NEW s \in LiveSegs(r)
  PROVE  /\ s \in Int /\ s < r.last /\ r.first - 1 <= s
         /\ r.def => r.first <= s
<1>1. CASE \E g \in GensOf(r) : s \in g.start .. (g.end - 1)
  <2>1. PICK g \in GensOf(r) : s \in g.start .. (g.end - 1)
    BY <1>1
  <2>2. g.start \in Nat /\ g.end \in Nat /\ r.first <= g.start /\ g.end <= r.last
    BY DEF IsRange, GensOf
  <2> QED BY <2>1, <2>2 DEF IsRange
<1>2. CASE ~r.def /\ r.first # 0 /\ s = r.first - 1
  BY <1>2 DEF IsRange
<1> QED BY <1>1, <1>2 DEF LiveSegs

\* The sweep's expiry rule separates the values (ralloc.cpp:235-243).
LEMMA ExpiredDisjoint ==
  ASSUME NEW r, NEW u, IsRange(r), IsRange(u), Expired(r, u)
  PROVE  LiveSegs(r) \cap LiveSegs(u) = {}
<1> SUFFICES ASSUME NEW s \in LiveSegs(r), s \in LiveSegs(u) PROVE FALSE
  OBVIOUS
<1>1. s \in Int /\ s < r.last
  BY LiveSegsInHull
<1>2. u.first - 1 <= s /\ (u.def => u.first <= s)
  BY LiveSegsInHull
<1> QED BY <1>1, <1>2 DEF Expired, IsRange

\* Ranges whose hulls are apart hold values that are apart (ralloc.cpp:308-316).
LEMMA HullDisjoint ==
  ASSUME NEW r, NEW u, IsRange(r), IsRange(u), ~HullsOverlap(r, u)
  PROVE  LiveSegs(r) \cap LiveSegs(u) = {}
<1>1. Expired(r, u) \/ Expired(u, r)
  BY DEF HullsOverlap, Expired, IsRange
<1> QED BY <1>1, ExpiredDisjoint

\* A generation of u that meets the entry segment of r reaches past the label
\* at which r begins, so it overlaps r's first generation.
LEMMA EntryApart ==
  ASSUME NEW r, NEW u, IsRange(r), IsRange(u), GensCompatible(r, u), ~r.def,
         NEW g \in GensOf(r), g.start = r.first,
         \A h \in GensOf(u) : h.end # r.first,
         NEW y \in GensOf(u)
  PROVE  r.first - 1 \notin y.start .. (y.end - 1)
<1> SUFFICES ASSUME r.first - 1 \in y.start .. (y.end - 1) PROVE FALSE
  OBVIOUS
<1>1. /\ g.start \in Nat /\ g.end \in Nat /\ g.start <= g.end
      /\ y.start \in Nat /\ y.end \in Nat /\ y.start <= y.end
  BY DEF IsRange, GensOf
<1>2. y.start < r.first /\ r.first < y.end
  BY <1>1 DEF IsRange
<1>3. g.start <= y.end /\ y.start <= g.end
  BY <1>1, <1>2
<1>4. g.end = y.start \/ y.end = g.start
  BY <1>3 DEF GensCompatible
<1> QED BY <1>1, <1>2, <1>4

\* The coalescer's test separates the values, given the contract on entries
\* (ralloc.cpp:295-307).
LEMMA GensDisjoint ==
  ASSUME NEW q, IsProblem(q), NEW v \in DOMAIN q.vreg, NEW w \in DOMAIN q.vreg,
         GensCompatible(q.vreg[v], q.vreg[w])
  PROVE  LiveSegs(q.vreg[v]) \cap LiveSegs(q.vreg[w]) = {}
<1> DEFINE r == q.vreg[v]
           u == q.vreg[w]
<1> SUFFICES ASSUME NEW s \in LiveSegs(r), s \in LiveSegs(u) PROVE FALSE
  OBVIOUS
<1>1. IsRange(r) /\ IsRange(u)
  BY DEF IsProblem
<1>2. GensCompatible(u, r)
  <2>1. \A x \in GensOf(r), y \in GensOf(u) : 
           (x.start <= y.end /\ y.start <= x.end) => x.end = y.start \/ y.end = x.start
    BY DEF GensCompatible
  <2> HIDE DEF r, u
  <2> QED BY <2>1 DEF GensCompatible
<1>3. /\ ~r.def => \E g \in GensOf(r) : g.start = r.first
      /\ ~r.def => \A g \in GensOf(r) : g.end # r.first
      /\ ~r.def => \A g \in GensOf(u) : g.end # r.first
      /\ ~u.def => \E g \in GensOf(u) : g.start = u.first
      /\ ~u.def => \A g \in GensOf(r) : g.end # u.first
  BY DEF IsProblem, EntryAtLabel
<1>4. GensCompatible(r, u)
  OBVIOUS
<1> HIDE DEF r, u
<1>a. ASSUME NEW x \in GensOf(r), s \in x.start .. (x.end - 1),
             NEW y \in GensOf(u), s \in y.start .. (y.end - 1)
      PROVE  FALSE
  <2>1. /\ x.start \in Nat /\ x.end \in Nat
        /\ y.start \in Nat /\ y.end \in Nat
    BY <1>1 DEF IsRange, GensOf
  <2>2. x.start <= y.end /\ y.start <= x.end
    BY <1>a, <2>1
  <2>3. x.end = y.start \/ y.end = x.start
    BY <2>2, <1>4 DEF GensCompatible
  <2> QED BY <1>a, <2>1, <2>3
<1>b. ASSUME ~r.def, s = r.first - 1, NEW y \in GensOf(u), s \in y.start .. (y.end - 1)
      PROVE  FALSE
  <2>1. PICK g \in GensOf(r) : g.start = r.first
    BY <1>b, <1>3
  <2> QED BY <1>b, <1>1, <1>3, <1>4, <2>1, EntryApart
<1>c. ASSUME ~u.def, s = u.first - 1, NEW y \in GensOf(r), s \in y.start .. (y.end - 1)
      PROVE  FALSE
  <2>1. PICK g \in GensOf(u) : g.start = u.first
    BY <1>c, <1>3
  <2> QED BY <1>c, <1>1, <1>2, <1>3, <2>1, EntryApart
<1>d. ASSUME ~r.def, ~u.def, r.first - 1 = u.first - 1 PROVE FALSE
  <2>1. PICK x \in GensOf(r) : x.start = r.first
    BY <1>d, <1>3
  <2>2. PICK y \in GensOf(u) : y.start = u.first
    BY <1>d, <1>3
  <2>3. /\ x.end \in Nat /\ y.end \in Nat /\ r.first \in Nat /\ u.first \in Nat
        /\ x.start <= x.end /\ y.start <= y.end
    BY <1>1 DEF IsRange, GensOf
  <2>4. r.first = u.first
    BY <1>d, <2>3
  <2>5. x.end # r.first /\ y.end # r.first
    BY <1>d, <1>3
  <2>6. x.start <= y.end /\ y.start <= x.end
    BY <2>1, <2>2, <2>3, <2>4
  <2>7. x.end = y.start \/ y.end = x.start
    BY <2>6, <1>4 DEF GensCompatible
  <2> QED BY <2>1, <2>2, <2>4, <2>5, <2>7
<1>e. /\ (\E x \in GensOf(r) : s \in x.start .. (x.end - 1)) \/ (~r.def /\ s = r.first - 1)
      /\ (\E y \in GensOf(u) : s \in y.start .. (y.end - 1)) \/ (~u.def /\ s = u.first - 1)
  BY DEF LiveSegs
<1> QED BY <1>a, <1>b, <1>c, <1>d, <1>e

-----------------------------------------------------------------------------
(* The inductive invariant.                                                *)

\* Before a class is swept none of its ranges has a register; a swept class
\* keeps its stage-selected ranges.
ClassProgress ==
  /\ pc \in {"selectA", "selectB", "repair"} =>
        \A v \in Vregs : V(v).cls >= ci => asg[v] = NoReg
  /\ pc = "sweep" => \A v \in Vregs : V(v).cls > ci => asg[v] = NoReg
  /\ pc \in {"selectA", "selectB", "repair", "sweep"} =>
        /\ selA \subseteq OfClass /\ selB \subseteq OfClass
        /\ rej \subseteq OfClass /\ todo \subseteq OfClass
  /\ pc = "selectA" => selA = {} /\ selB = {} /\ rej = {} /\ todo = {}
  /\ pc \in {"selectB", "repair", "sweep"} => ci \in DOMAIN p.class
  /\ pc = "sweep" => rej = {}
  /\ pc = "sweep" =>
        slot \in [DOMAIN Slots -> [active : BOOLEAN, last : Nat]]

\* During the sweep a placed range either still holds its slot, or has
\* expired for every range that is still to come.
HoldsOrExpired ==
  pc = "sweep" =>
    \A w \in Promoted : V(w).cls = ci =>
      \A i \in DOMAIN Slots : Slots[i].reg = asg[w] =>
         \/ slot[i].active /\ slot[i].last = V(w).last
         \/ \A x \in todo : Expired(V(w), V(x))

IInv == TypeOK /\ ClassProgress /\ HoldsOrExpired /\ NoClobber /\ CrossingSafe

\* ralloc_hybrid at its entry, on any problem that honours the contract.
Fresh == /\ IsProblem(p)
         /\ pc = "selectA" /\ ci = 1
         /\ selA = {} /\ selB = {} /\ rej = {} /\ todo = {}
         /\ slot = << >> /\ asg = [v \in Vregs |-> NoReg]
         /\ round = 0 /\ mi = 1 /\ any = FALSE

LEMMA InitFresh == Init => Fresh
BY ProblemsAssumption DEF Init, Fresh

\* The entry establishes the invariant.
LEMMA FreshIInv == Fresh => IInv
<1> SUFFICES ASSUME Fresh PROVE IInv
  OBVIOUS
<1> USE DEF Fresh
<1>1. IsProblem(p)
  OBVIOUS
<1>2. Promoted = {}
  BY DEF Promoted, Vregs
<1>3. TypeOK
  <2>1. Len(p.class) \in Nat
    BY <1>1 DEF IsProblem
  <2>2. ci \in 1 .. (Len(p.class) + 1)
    BY <2>1
  <2>3. asg \in [Vregs -> Nat \cup {NoReg}]
    OBVIOUS
  <2>4. \A v \in Promoted : asg[v] \in Regs(V(v).cls)
    BY <1>2
  <2>5. pc \in {"selectA", "selectB", "repair", "sweep", "coalesce", "done"}
    OBVIOUS
  <2>6. selA \subseteq Vregs /\ selB \subseteq Vregs /\ rej \subseteq Vregs /\ todo \subseteq Vregs
    OBVIOUS
  <2>7. round \in Nat /\ mi \in Nat \ {0}
    OBVIOUS
  <2>8. any \in BOOLEAN
    OBVIOUS
  <2> HIDE DEF Fresh
  <2> QED BY <1>1, <2>2, <2>3, <2>4, <2>5, <2>6, <2>7, <2>8 DEF TypeOK
<1>4. ClassProgress
  BY DEF ClassProgress, Vregs
<1> QED BY <1>2, <1>3, <1>4 DEF IInv, HoldsOrExpired, NoClobber, CrossingSafe

\* A step that changes neither the assignment nor, while sweeping, the slots
\* preserves what the invariant says of the registers.
LEMMA SameRegisters ==
  ASSUME IInv, p' = p, asg' = asg, pc' # "sweep"
  PROVE  NoClobber' /\ CrossingSafe' /\ HoldsOrExpired'
<1>1. Promoted' = Promoted
  BY DEF Promoted, Vregs
<1>2. NoClobber'
  BY <1>1 DEF IInv, NoClobber, V
<1>3. CrossingSafe'
  BY <1>1 DEF IInv, CrossingSafe, V, CalleeSaved
<1> QED BY <1>2, <1>3 DEF HoldsOrExpired

LEMMA PromotedRegs ==
  ASSUME IInv, p' = p, asg' = asg
  PROVE  \A v \in Promoted' : asg'[v] \in Regs(V(v).cls)'
BY DEF IInv, TypeOK, Promoted, Vregs, Regs, V

LEMMA SkipClassStep == IInv /\ SkipClass => IInv'
<1> SUFFICES ASSUME IInv, SkipClass PROVE IInv'
  OBVIOUS
<1> USE DEF SkipClass
<1>0. Len(p.class) \in Nat
  BY DEF IInv, TypeOK, IsProblem
<1>1. TypeOK'
  BY <1>0, PromotedRegs DEF IInv, TypeOK, Vregs
<1>2. ClassProgress'
  <2>1. \A v \in Vregs : V(v).cls \in Nat
    BY DEF IInv, TypeOK, IsProblem, V, Vregs
  <2>2. selA = {} /\ selB = {} /\ rej = {} /\ todo = {} /\ ci \in Nat
    BY <1>0 DEF IInv, ClassProgress, TypeOK
  <2> QED BY <2>1, <2>2 DEF IInv, ClassProgress, Vregs, V
<1> QED BY <1>1, <1>2, SameRegisters DEF IInv

LEMMA SelectCrossingStep == IInv /\ SelectCrossing => IInv'
<1> SUFFICES ASSUME IInv, SelectCrossing PROVE IInv'
  OBVIOUS
<1> USE DEF SelectCrossing
<1>0. Len(p.class) \in Nat /\ DOMAIN p.class = 1 .. Len(p.class)
  BY DEF IInv, TypeOK, IsProblem
<1>1. selA' \subseteq OfClass
  BY DEF Selections, BestSelections, Crossing
<1>2. TypeOK'
  BY <1>1, PromotedRegs DEF IInv, TypeOK, Vregs, OfClass
<1>3. ci \in DOMAIN p.class
  BY <1>0 DEF IInv, TypeOK
<1>4. ClassProgress'
  BY <1>1, <1>3 DEF IInv, ClassProgress, Vregs, V, OfClass
<1> QED BY <1>2, <1>4, SameRegisters DEF IInv

LEMMA SelectFreeStep == IInv /\ SelectFree => IInv'
<1> SUFFICES ASSUME IInv, SelectFree PROVE IInv'
  OBVIOUS
<1> USE DEF SelectFree
<1>1. selB' \subseteq OfClass /\ rej' \subseteq OfClass
  BY DEF Selections, BestSelections, FreeGoing, Crossing
<1>2. TypeOK'
  BY <1>1, PromotedRegs DEF IInv, TypeOK, Vregs, OfClass
<1>3. ClassProgress'
  BY <1>1 DEF IInv, ClassProgress, Vregs, V, OfClass
<1> QED BY <1>2, <1>3, SameRegisters DEF IInv

LEMMA RepairStep == IInv /\ Repair => IInv'
<1> SUFFICES ASSUME IInv, Repair PROVE IInv'
  OBVIOUS
<1> USE DEF Repair
<1>1. selA' \subseteq OfClass /\ rej' \subseteq OfClass
  BY DEF IInv, ClassProgress
<1>2. TypeOK'
  BY <1>1, PromotedRegs DEF IInv, TypeOK, Vregs, OfClass
<1>3. ClassProgress'
  BY <1>1 DEF IInv, ClassProgress, Vregs, V, OfClass
<1> QED BY <1>2, <1>3, SameRegisters DEF IInv

LEMMA BeginSweepStep == IInv /\ BeginSweep => IInv'
<1> SUFFICES ASSUME IInv, BeginSweep PROVE IInv'
  OBVIOUS
<1> USE DEF BeginSweep
<1>1. todo' \subseteq OfClass
  BY DEF IInv, ClassProgress
<1>2. TypeOK'
  BY <1>1, PromotedRegs DEF IInv, TypeOK, Vregs, OfClass
<1>3. slot' \in [DOMAIN Slots -> [active : BOOLEAN, last : Nat]]
  <2>1. ci \in DOMAIN p.class
    BY DEF IInv, ClassProgress
  <2>2. Slots \in Seq([reg : Nat, callee : BOOLEAN])
    BY <2>1 DEF IInv, TypeOK, IsProblem, Slots
  <2>3. DOMAIN Slots = 1 .. Total
    BY <2>2 DEF Total
  <2> QED BY <2>3 DEF Idle
<1>4. \A v \in Vregs : V(v).cls \in Nat /\ ci \in Nat
  BY DEF IInv, TypeOK, IsProblem, V, Vregs
<1>5. ClassProgress'
  BY <1>1, <1>3, <1>4 DEF IInv, ClassProgress, Vregs, V, OfClass, Slots
<1>6. \A w \in Promoted' : V(w)'.cls # ci'
  BY <1>4 DEF IInv, ClassProgress, Promoted, Vregs, V
<1>7. HoldsOrExpired'
  BY <1>6 DEF HoldsOrExpired
<1>8. Promoted' = Promoted
  BY DEF Promoted, Vregs
<1>9. NoClobber' /\ CrossingSafe'
  BY <1>8 DEF IInv, NoClobber, CrossingSafe, V, CalleeSaved
<1> QED BY <1>2, <1>5, <1>7, <1>9 DEF IInv

LEMMA NextClassStep == IInv /\ NextClass => IInv'
<1> SUFFICES ASSUME IInv, NextClass PROVE IInv'
  OBVIOUS
<1> USE DEF NextClass
<1>0. Len(p.class) \in Nat /\ DOMAIN p.class = 1 .. Len(p.class) /\ ci \in DOMAIN p.class
  BY DEF IInv, TypeOK, IsProblem, ClassProgress
<1>1. \A v \in Vregs : V(v).cls \in Nat /\ ci \in Nat
  BY DEF IInv, TypeOK, IsProblem, V, Vregs
<1>2. TypeOK'
  BY <1>0, PromotedRegs DEF IInv, TypeOK, Vregs
<1>3. rej = {}
  BY DEF IInv, ClassProgress
<1>4. ClassProgress'
  BY <1>1, <1>3 DEF IInv, ClassProgress, Vregs, V, OfClass
<1> QED BY <1>2, <1>4, SameRegisters DEF IInv

LEMMA BeginCoalescingStep == IInv /\ BeginCoalescing => IInv'
<1> SUFFICES ASSUME IInv, BeginCoalescing PROVE IInv'
  OBVIOUS
<1> USE DEF BeginCoalescing
<1>a. mi' \in Nat \ {0} /\ round' \in Nat
  BY DEF IInv, TypeOK
<1>b. any' \in BOOLEAN
  OBVIOUS
<1>1. TypeOK'
  BY <1>a, <1>b, PromotedRegs DEF IInv, TypeOK, Vregs
<1>2. ClassProgress'
  BY DEF ClassProgress
<1> QED BY <1>1, <1>2, SameRegisters DEF IInv

LEMMA LeaveApartStep == IInv /\ LeaveApart => IInv'
<1> SUFFICES ASSUME IInv, LeaveApart PROVE IInv'
  OBVIOUS
<1> USE DEF LeaveApart, InRound
<1>1. TypeOK'
  BY PromotedRegs DEF IInv, TypeOK, Vregs
<1>2. ClassProgress'
  BY DEF ClassProgress
<1> QED BY <1>1, <1>2, SameRegisters DEF IInv

LEMMA EndRoundStep == IInv /\ EndRound => IInv'
<1> SUFFICES ASSUME IInv, EndRound PROVE IInv'
  OBVIOUS
<1> USE DEF EndRound
<1>1. pc' \in {"coalesce", "done"}
  OBVIOUS
<1>2. any' \in BOOLEAN
  BY DEF IInv, TypeOK
<1>3. mi' \in Nat \ {0} /\ round' \in Nat
  BY DEF IInv, TypeOK
<1>4. TypeOK'
  BY <1>1, <1>2, <1>3, PromotedRegs DEF IInv, TypeOK, Vregs
<1>5. ClassProgress'
  BY <1>1 DEF ClassProgress
<1> QED BY <1>1, <1>4, <1>5, SameRegisters DEF IInv

\* A range that expires for the next range to be placed has expired for every
\* range after it: later ones begin later, or begin at the same instruction
\* and then start the same way (UniformStarts).
LEMMA ExpiredForAll ==
  ASSUME IInv, NEW v \in todo, pc = "sweep",
         \A x \in todo \ {v} : Earlier(v, x),
         NEW w \in Vregs, Expired(V(w), V(v))
  PROVE  \A x \in todo : Expired(V(w), V(x))
<1> SUFFICES ASSUME NEW x \in todo, x # v PROVE Expired(V(w), V(x))
  OBVIOUS
<1>1. v \in Vregs /\ x \in Vregs
  BY DEF IInv, TypeOK
<1>2. /\ V(w).last \in Nat /\ V(v).first \in Nat /\ V(x).first \in Nat
      /\ V(v).first = V(x).first => V(v).def = V(x).def
  BY <1>1 DEF IInv, TypeOK, IsProblem, IsRange, UniformStarts, V, Vregs
<1>3. V(v).first < V(x).first \/ V(v).first = V(x).first
  BY DEF Earlier
<1>4. CASE V(v).first = V(x).first
  BY <1>2, <1>4 DEF Expired
<1>5. CASE V(v).first < V(x).first
  BY <1>2, <1>5 DEF Expired
<1> QED BY <1>3, <1>4, <1>5

\* What one iteration of the assignment loop does, when it places a range.
LEMMA PlacedStep ==
  ASSUME IInv, pc = "sweep", NEW v \in todo,
         \A x \in todo \ {v} : Earlier(v, x),
         todo' = todo \ {v}, UNCHANGED <<p, pc, ci>>,
         NEW i \in Eligible(V(v)), ~Expire(V(v))[i].active,
         slot' = [Expire(V(v)) EXCEPT ![i] = [active |-> TRUE, last |-> V(v).last]],
         asg' = [asg EXCEPT ![v] = Slots[i].reg]
  PROVE  /\ asg' \in [Vregs -> Nat \cup {NoReg}]
         /\ \A w \in Promoted' : asg'[w] \in Regs(V(w).cls)
         /\ slot' \in [DOMAIN Slots -> [active : BOOLEAN, last : Nat]]
         /\ HoldsOrExpired' /\ NoClobber' /\ CrossingSafe'
         /\ Promoted' = Promoted \cup {v} /\ \A w \in Vregs \ {v} : asg'[w] = asg[w]
         /\ asg'[v] = Slots[i].reg /\ V(v).cls = ci
         /\ \A w \in Promoted : (w # v /\ V(w).cls = ci /\ asg[w] = Slots[i].reg)
                                 => Expired(V(w), V(v))
<1>1. /\ v \in Vregs /\ V(v).cls = ci /\ i \in DOMAIN Slots
      /\ ci \in DOMAIN p.class
      /\ IsRange(V(v)) /\ \A w \in Vregs : IsRange(V(w))
  BY DEF IInv, TypeOK, ClassProgress, OfClass, Eligible, IsProblem, V, Vregs
<1>2. /\ \A j \in DOMAIN Slots : Slots[j].reg \in Nat
      /\ \A j, k \in DOMAIN Slots : Slots[j].reg = Slots[k].reg => j = k
  <2>1. /\ p.class \in Seq(Seq([reg : Nat, callee : BOOLEAN]))
        /\ DistinctRegs(p)
    BY DEF IInv, TypeOK, IsProblem
  <2>2. Slots \in Seq([reg : Nat, callee : BOOLEAN])
    BY <1>1, <2>1 DEF Slots
  <2>3. \A j \in DOMAIN Slots : Slots[j] \in [reg : Nat, callee : BOOLEAN]
    <3> DEFINE Rec == [reg : Nat, callee : BOOLEAN]
    <3>1. Slots \in Seq(Rec)
      BY <2>2
    <3> HIDE DEF Rec
    <3>2. \A j \in DOMAIN Slots : Slots[j] \in Rec
      BY <3>1
    <3> QED BY <3>2 DEF Rec
  <2>4. \A j, k \in DOMAIN Slots : Slots[j].reg = Slots[k].reg => j = k
    BY <1>1, <2>1 DEF DistinctRegs, Slots
  <2> QED BY <2>3, <2>4
<1>3. slot \in [DOMAIN Slots -> [active : BOOLEAN, last : Nat]]
  BY DEF IInv, ClassProgress
<1>4. V(v).last \in Nat /\ Slots[i].reg # NoReg /\ Slots[i].reg \in Nat
  BY <1>1, <1>2, NoRegAssumption DEF IsRange
<1>5. asg \in [Vregs -> Nat \cup {NoReg}]
  BY DEF IInv, TypeOK
<1>6. /\ asg' \in [Vregs -> Nat \cup {NoReg}]
      /\ asg'[v] = Slots[i].reg /\ \A w \in Vregs \ {v} : asg'[w] = asg[w]
      /\ Promoted' = Promoted \cup {v}
  BY <1>1, <1>4, <1>5 DEF Promoted, Vregs
<1>7. /\ Slots' = Slots /\ Vregs' = Vregs
      /\ \A w : V(w)' = V(w)
      /\ \A c : Regs(c)' = Regs(c)
  BY DEF Slots, Vregs, V, Regs
<1>8. \A w \in Promoted' : asg'[w] \in Regs(V(w).cls)
  <2>1. asg'[v] \in Regs(V(v).cls)
    BY <1>1, <1>6 DEF Regs, Slots
  <2>2. \A w \in Promoted : asg[w] \in Regs(V(w).cls)
    BY DEF IInv, TypeOK
  <2> QED BY <1>6, <2>1, <2>2 DEF Promoted
<1>9. Expire(V(v)) \in [DOMAIN Slots -> [active : BOOLEAN, last : Nat]]
  BY <1>3 DEF Expire
<1>10. /\ slot' \in [DOMAIN Slots -> [active : BOOLEAN, last : Nat]]
       /\ slot'[i].active /\ slot'[i].last = V(v).last
       /\ \A j \in DOMAIN Slots \ {i} : slot'[j] = Expire(V(v))[j]
  BY <1>1, <1>4, <1>9
\* an earlier holder of a slot that the expiry leaves idle has expired
<1>11. ASSUME NEW w \in Promoted, V(w).cls = ci, w # v,
              NEW j \in DOMAIN Slots, Slots[j].reg = asg[w]
       PROVE  \/ Expire(V(v))[j].active /\ Expire(V(v))[j].last = V(w).last
              \/ Expired(V(w), V(v)) /\ \A x \in todo : Expired(V(w), V(x))
  <2>1. \/ slot[j].active /\ slot[j].last = V(w).last
        \/ \A x \in todo : Expired(V(w), V(x))
    BY <1>11 DEF IInv, HoldsOrExpired
  <2>2. CASE \A x \in todo : Expired(V(w), V(x))
    BY <2>2
  <2>3. CASE slot[j].active /\ slot[j].last = V(w).last
    <3>1. CASE Expired(slot[j], V(v))
      <4>1. Expired(V(w), V(v))
        BY <2>3, <3>1 DEF Expired
      <4> QED BY <4>1, ExpiredForAll DEF Promoted
    <3>2. CASE ~Expired(slot[j], V(v))
      <4>1. Expire(V(v))[j] = slot[j]
        BY <1>3, <3>2 DEF Expire
      <4> QED BY <4>1, <2>3
    <3> QED BY <3>1, <3>2
  <2> QED BY <2>1, <2>2, <2>3
<1>12. HoldsOrExpired'
  <2> SUFFICES ASSUME NEW w \in Promoted', V(w).cls = ci, 
                      NEW j \in DOMAIN Slots, Slots[j].reg = asg'[w]
               PROVE  \/ slot'[j].active /\ slot'[j].last = V(w).last
                      \/ \A x \in todo' : Expired(V(w), V(x))
    BY <1>7 DEF HoldsOrExpired
  <2>1. CASE w = v
    <3>1. j = i
      BY <1>1, <1>2, <1>6, <2>1
    <3> QED BY <3>1, <1>10, <2>1
  <2>2. CASE w # v
    <3>1. w \in Promoted /\ asg'[w] = asg[w]
      BY <1>6, <2>2 DEF Promoted
    <3>2. \/ Expire(V(v))[j].active /\ Expire(V(v))[j].last = V(w).last
          \/ \A x \in todo : Expired(V(w), V(x))
      BY <1>11, <2>2, <3>1
    <3>3. CASE j = i
      BY <3>2, <3>3
    <3>4. CASE j # i
      BY <3>2, <3>4, <1>10
    <3> QED BY <3>3, <3>4
  <2> QED BY <2>1, <2>2
\* the new holder's value is apart from every earlier holder's
<1>13. ASSUME NEW w \in Promoted, w # v, V(w).cls = ci, asg[w] = Slots[i].reg
       PROVE  Expired(V(w), V(v)) /\ LiveSegs(V(w)) \cap LiveSegs(V(v)) = {}
  <2>1. Expired(V(w), V(v))
    BY <1>1, <1>11, <1>13
  <2>2. IsRange(V(w)) /\ IsRange(V(v))
    BY <1>1 DEF Promoted
  <2> QED BY <2>1, <2>2, ExpiredDisjoint
<1>14. NoClobber'
  <2> SUFFICES ASSUME NEW x \in Promoted', NEW y \in Promoted', x # y,
                      V(x).cls = V(y).cls, asg'[x] = asg'[y]
               PROVE  LiveSegs(V(x)) \cap LiveSegs(V(y)) = {}
    BY <1>7 DEF NoClobber
  <2>1. CASE x = v
    BY <2>1, <1>1, <1>6, <1>13 DEF Promoted
  <2>2. CASE y = v
    BY <2>2, <1>1, <1>6, <1>13 DEF Promoted
  <2>3. CASE x # v /\ y # v
    BY <2>3, <1>6 DEF IInv, NoClobber, Promoted
  <2> QED BY <2>1, <2>2, <2>3
<1>15. CrossingSafe'
  <2> SUFFICES ASSUME NEW w \in Promoted', V(w).crosses
               PROVE  CalleeSaved(V(w).cls, asg'[w])
    BY <1>7 DEF CrossingSafe, CalleeSaved
  <2>1. CASE w = v
    <3>1. Slots[i].callee
      BY <2>1 DEF Eligible
    <3> QED BY <2>1, <3>1, <1>1, <1>6 DEF CalleeSaved, Slots
  <2>2. CASE w # v
    BY <2>2, <1>6 DEF IInv, CrossingSafe, Promoted
  <2> QED BY <2>1, <2>2
<1> QED BY <1>1, <1>6, <1>8, <1>10, <1>12, <1>13, <1>14, <1>15

\* A step that changes the assignment within the class's registers keeps every type.
LEMMA AssignTypeOK ==
  ASSUME TypeOK, UNCHANGED <<p, pc, ci, selA, selB, rej, round>>,
         todo' \subseteq Vregs,
         asg' \in [Vregs -> Nat \cup {NoReg}],
         \A w \in Promoted' : asg'[w] \in Regs(V(w).cls),
         any' \in BOOLEAN, mi' \in Nat \ {0}
  PROVE  TypeOK'
<1>1. Vregs' = Vregs /\ \A w : V(w)' = V(w) /\ \A c : Regs(c)' = Regs(c)
  BY DEF Vregs, V, Regs
<1>2. IsProblem(p)'
  BY DEF TypeOK
<1>3. /\ pc' \in {"selectA", "selectB", "repair", "sweep", "coalesce", "done"}
      /\ ci' \in 1 .. (Len(p.class') + 1)
      /\ round' \in Nat
  BY DEF TypeOK
<1>4. selA' \subseteq Vregs' /\ selB' \subseteq Vregs' /\ rej' \subseteq Vregs' /\ todo' \subseteq Vregs'
  BY <1>1 DEF TypeOK
<1>5. asg' \in [Vregs' -> Nat \cup {NoReg}]
  BY <1>1
<1>6. \A w \in Promoted' : asg'[w] \in (Regs(V(w).cls))'
  BY <1>1
<1> QED BY <1>2, <1>3, <1>4, <1>5, <1>6 DEF TypeOK

LEMMA PlaceStep == IInv /\ Place => IInv'
<1> SUFFICES ASSUME IInv, Place PROVE IInv'
  OBVIOUS
<1>1. PICK v \in todo :
        /\ \A w \in todo \ {v} : Earlier(v, w)
        /\ todo' = todo \ {v}
        /\ \/ \E i \in Eligible(V(v)) :
                /\ ~Expire(V(v))[i].active
                /\ slot' = [Expire(V(v)) EXCEPT ![i] = [active |-> TRUE, last |-> V(v).last]]
                /\ asg' = [asg EXCEPT ![v] = Slots[i].reg]
           \/ slot' = Expire(V(v)) /\ asg' = asg
  BY DEF Place
<1>2. pc = "sweep" /\ UNCHANGED <<p, pc, ci, selA, selB, rej, round, mi, any>>
  BY DEF Place
<1>3. CASE \E i \in Eligible(V(v)) :
             /\ ~Expire(V(v))[i].active
             /\ slot' = [Expire(V(v)) EXCEPT ![i] = [active |-> TRUE, last |-> V(v).last]]
             /\ asg' = [asg EXCEPT ![v] = Slots[i].reg]
  <2>1. PICK i \in Eligible(V(v)) :
             /\ ~Expire(V(v))[i].active
             /\ slot' = [Expire(V(v)) EXCEPT ![i] = [active |-> TRUE, last |-> V(v).last]]
             /\ asg' = [asg EXCEPT ![v] = Slots[i].reg]
    BY <1>3
  <2>2. /\ asg' \in [Vregs -> Nat \cup {NoReg}]
        /\ \A w \in Promoted' : asg'[w] \in Regs(V(w).cls)
        /\ slot' \in [DOMAIN Slots -> [active : BOOLEAN, last : Nat]]
        /\ HoldsOrExpired' /\ NoClobber' /\ CrossingSafe'
    BY <1>1, <1>2, <2>1, PlacedStep
  <2>3. TypeOK'
    <3>1. TypeOK /\ todo' \subseteq Vregs /\ any' \in BOOLEAN /\ mi' \in Nat \ {0}
      BY <1>1, <1>2 DEF IInv, TypeOK
    <3> QED BY <1>2, <2>2, <3>1, AssignTypeOK
  <2>4. /\ v \in Vregs /\ V(v).cls = ci
        /\ \A w \in Vregs : V(w).cls \in Nat /\ ci \in Nat
    BY <1>2 DEF IInv, TypeOK, ClassProgress, OfClass, IsProblem, V, Vregs
  <2>5. \A w \in Vregs \ {v} : asg'[w] = asg[w]
    BY <2>1, <2>4 DEF IInv, TypeOK
  <2>6. ClassProgress'
    <3>1. \A w \in Vregs : V(w).cls > ci => asg'[w] = NoReg
      BY <1>2, <2>4, <2>5 DEF IInv, ClassProgress
    <3> QED BY <1>1, <1>2, <2>2, <3>1 DEF IInv, ClassProgress, Vregs, V, OfClass, Slots
  <2> QED BY <2>2, <2>3, <2>6 DEF IInv
<1>4. CASE slot' = Expire(V(v)) /\ asg' = asg
  <2>1. TypeOK'
    BY <1>1, <1>2, <1>4, PromotedRegs DEF IInv, TypeOK, Vregs
  <2>2. slot \in [DOMAIN Slots -> [active : BOOLEAN, last : Nat]]
    BY <1>2 DEF IInv, ClassProgress
  <2>3. slot' \in [DOMAIN Slots -> [active : BOOLEAN, last : Nat]]
    BY <1>4, <2>2 DEF Expire
  <2>4. ClassProgress'
    BY <1>1, <1>2, <1>4, <2>3 DEF IInv, ClassProgress, Vregs, V, OfClass, Slots
  <2>5. Promoted' = Promoted
    BY <1>2, <1>4 DEF Promoted, Vregs
  <2>6. NoClobber' /\ CrossingSafe'
    BY <1>2, <1>4, <2>5 DEF IInv, NoClobber, CrossingSafe, V, CalleeSaved
  <2>7. HoldsOrExpired'
    <3> SUFFICES ASSUME NEW w \in Promoted, V(w).cls = ci,
                        NEW j \in DOMAIN Slots, Slots[j].reg = asg[w]
                 PROVE  \/ slot'[j].active /\ slot'[j].last = V(w).last
                        \/ \A x \in todo' : Expired(V(w), V(x))
      BY <1>2, <1>4, <2>5 DEF HoldsOrExpired, V, Slots
    <3>1. \/ slot[j].active /\ slot[j].last = V(w).last
          \/ \A x \in todo : Expired(V(w), V(x))
      BY <1>2 DEF IInv, HoldsOrExpired
    <3>2. CASE \A x \in todo : Expired(V(w), V(x))
      BY <1>1, <3>2
    <3>3. CASE slot[j].active /\ slot[j].last = V(w).last
      <4>1. CASE Expired(slot[j], V(v))
        <5>1. Expired(V(w), V(v))
          BY <3>3, <4>1 DEF Expired
        <5> QED BY <1>1, <1>2, <5>1, ExpiredForAll DEF Promoted
      <4>2. CASE ~Expired(slot[j], V(v))
        BY <1>4, <2>2, <3>3, <4>2 DEF Expire
      <4> QED BY <4>1, <4>2
    <3> QED BY <3>1, <3>2, <3>3
  <2> QED BY <2>1, <2>4, <2>6, <2>7 DEF IInv
<1> QED BY <1>1, <1>3, <1>4

-----------------------------------------------------------------------------
(* Coalescing.                                                             *)

\* Moving range m to the register of range o, as attempt() allows it.
LEMMA JoinStep ==
  ASSUME IInv, NEW m, NEW o, m # o, Movable(m, o), MayJoin(m, o), UNCHANGED p,
         asg' = [asg EXCEPT ![m] = asg[o]]
  PROVE  /\ asg' \in [Vregs -> Nat \cup {NoReg}]
         /\ \A w \in Promoted' : asg'[w] \in Regs(V(w).cls)
         /\ NoClobber' /\ CrossingSafe'
<1>1. /\ m \in Promoted /\ o \in Promoted /\ m \in Vregs /\ o \in Vregs
      /\ V(m).cls = V(o).cls
  BY DEF Movable, Promoted
<1>2. asg \in [Vregs -> Nat \cup {NoReg}]
  BY DEF IInv, TypeOK
<1>3. /\ asg' \in [Vregs -> Nat \cup {NoReg}]
      /\ asg'[m] = asg[o] /\ \A w \in Vregs \ {m} : asg'[w] = asg[w]
      /\ Promoted' = Promoted
  BY <1>1, <1>2 DEF Promoted, Vregs
<1>4. /\ Vregs' = Vregs /\ \A w : V(w)' = V(w) /\ \A c : Regs(c)' = Regs(c)
  BY DEF Vregs, V, Regs
<1>5. \A w \in Promoted' : asg'[w] \in Regs(V(w).cls)
  BY <1>1, <1>3 DEF IInv, TypeOK, Promoted
<1>6. ASSUME NEW w \in Promoted, w # m, V(w).cls = V(m).cls, asg[w] = asg[o]
      PROVE  LiveSegs(V(m)) \cap LiveSegs(V(w)) = {}
  <2>1. w \in Vregs /\ IsProblem(p) /\ IsRange(V(w)) /\ IsRange(V(m))
    BY <1>1 DEF IInv, TypeOK, IsProblem, Promoted, V, Vregs
  <2>2. CASE w = o
    BY <2>1, <2>2, <1>1, GensDisjoint DEF MayJoin, V, Vregs
  <2>3. CASE w # o
    <3>1. ~HullsOverlap(V(w), V(m))
      BY <2>1, <2>3, <1>6 DEF MayJoin
    <3> QED BY <2>1, <3>1, HullDisjoint
  <2> QED BY <2>2, <2>3
<1>7. NoClobber'
  <2> SUFFICES ASSUME NEW x \in Promoted, NEW y \in Promoted, x # y,
                      V(x).cls = V(y).cls, asg'[x] = asg'[y]
               PROVE  LiveSegs(V(x)) \cap LiveSegs(V(y)) = {}
    BY <1>3, <1>4 DEF NoClobber
  <2>1. CASE x = m
    BY <2>1, <1>3, <1>6 DEF Promoted
  <2>2. CASE y = m
    BY <2>2, <1>3, <1>6 DEF Promoted
  <2>3. CASE x # m /\ y # m
    BY <2>3, <1>3 DEF IInv, NoClobber, Promoted
  <2> QED BY <2>1, <2>2, <2>3
<1>8. CrossingSafe'
  <2> SUFFICES ASSUME NEW w \in Promoted, V(w).crosses
               PROVE  CalleeSaved(V(w).cls, asg'[w])
    BY <1>3, <1>4 DEF CrossingSafe, CalleeSaved
  <2>1. CASE w = m
    BY <2>1, <1>3 DEF MayJoin
  <2>2. CASE w # m
    BY <2>2, <1>3 DEF IInv, CrossingSafe, Promoted
  <2> QED BY <2>1, <2>2
<1> QED BY <1>3, <1>5, <1>7, <1>8

LEMMA JoinOtherStep == IInv /\ JoinOther => IInv'
<1> SUFFICES ASSUME IInv, JoinOther PROVE IInv'
  OBVIOUS
<1>1. /\ Movable(Mover, Other) /\ MayJoin(Mover, Other)
      /\ asg' = [asg EXCEPT ![Mover] = asg[Other]]
      /\ any' = TRUE /\ mi' = mi + 1 /\ pc = "coalesce"
      /\ UNCHANGED <<p, pc, ci, selA, selB, rej, todo, slot, round>>
  BY DEF JoinOther, InRound
<1>2. Mover # Other
  BY <1>1 DEF Movable
<1>3. /\ asg' \in [Vregs -> Nat \cup {NoReg}]
      /\ \A w \in Promoted' : asg'[w] \in Regs(V(w).cls)
      /\ NoClobber' /\ CrossingSafe'
  BY <1>1, <1>2, JoinStep
<1>4. any' \in BOOLEAN
  BY <1>1
<1>5. mi' \in Nat \ {0}
  BY <1>1 DEF IInv, TypeOK
<1>6. TypeOK'
  BY <1>1, <1>3, <1>4, <1>5, AssignTypeOK DEF IInv, TypeOK
<1> QED BY <1>1, <1>3, <1>6 DEF IInv, ClassProgress, HoldsOrExpired

LEMMA JoinMoverStep == IInv /\ JoinMover => IInv'
<1> SUFFICES ASSUME IInv, JoinMover PROVE IInv'
  OBVIOUS
<1>1. /\ Movable(Mover, Other) /\ MayJoin(Other, Mover)
      /\ asg' = [asg EXCEPT ![Other] = asg[Mover]]
      /\ any' = TRUE /\ mi' = mi + 1 /\ pc = "coalesce"
      /\ UNCHANGED <<p, pc, ci, selA, selB, rej, todo, slot, round>>
  BY DEF JoinMover, InRound
<1>2. Mover # Other /\ Movable(Other, Mover)
  BY <1>1 DEF Movable
<1>3. /\ asg' \in [Vregs -> Nat \cup {NoReg}]
      /\ \A w \in Promoted' : asg'[w] \in Regs(V(w).cls)
      /\ NoClobber' /\ CrossingSafe'
  BY <1>1, <1>2, JoinStep
<1>4. any' \in BOOLEAN
  BY <1>1
<1>5. mi' \in Nat \ {0}
  BY <1>1 DEF IInv, TypeOK
<1>6. TypeOK'
  BY <1>1, <1>3, <1>4, <1>5, AssignTypeOK DEF IInv, TypeOK
<1> QED BY <1>1, <1>3, <1>6 DEF IInv, ClassProgress, HoldsOrExpired

-----------------------------------------------------------------------------
(* The theorems.                                                           *)

LEMMA StutterStep == IInv /\ UNCHANGED vars => IInv'
<1> SUFFICES ASSUME IInv, UNCHANGED vars PROVE IInv'
  OBVIOUS
<1> USE DEF vars
<1>1. Promoted' = Promoted /\ Vregs' = Vregs
  BY DEF Promoted, Vregs
<1>2. TypeOK'
  BY PromotedRegs DEF IInv, TypeOK, Vregs
<1>3. ClassProgress'
  BY DEF IInv, ClassProgress, Vregs, V, OfClass, Slots
<1>4. NoClobber' /\ CrossingSafe'
  BY <1>1 DEF IInv, NoClobber, CrossingSafe, V, CalleeSaved
<1>5. HoldsOrExpired'
  BY <1>1 DEF IInv, HoldsOrExpired, V, Slots
<1> QED BY <1>2, <1>3, <1>4, <1>5 DEF IInv

LEMMA InvarianceStep == ASSUME IInv, [Next]_vars PROVE IInv'
BY SkipClassStep, SelectCrossingStep, SelectFreeStep, RepairStep,
   BeginSweepStep, PlaceStep, NextClassStep, BeginCoalescingStep,
   JoinOtherStep, JoinMoverStep, LeaveApartStep, EndRoundStep, StutterStep
   DEF Next, Done

\* The invariant holds in every state ralloc_hybrid can reach.
THEOREM Invariance == Spec => []IInv
<1>1. Init => IInv
  BY InitFresh, FreshIInv
<1>2. IInv /\ [Next]_vars => IInv'
  BY InvarianceStep
<1> QED BY <1>1, <1>2, PTL DEF Spec

\* Every assigned register belongs to the range's class, at every stage of
\* ralloc_hybrid (ralloc.cpp:106-340).
THEOREM TypeCorrect == Spec => []TypeOK
<1>1. IInv => TypeOK
  BY DEF IInv
<1> QED BY <1>1, Invariance, PTL

\* No value is overwritten while it is live, whatever the target's problem:
\* any number of ranges, classes, banks, generations and moves.
THEOREM NeverClobbers == Spec => []NoClobber
<1>1. IInv => NoClobber
  BY DEF IInv
<1> QED BY <1>1, Invariance, PTL

\* A call-crossing value is never promoted to a caller-saved register.
THEOREM CallsAreSafe == Spec => []CrossingSafe
<1>1. IInv => CrossingSafe
  BY DEF IInv
<1> QED BY <1>1, Invariance, PTL

-----------------------------------------------------------------------------
(* The selection fits the banks.                                           *)

\* The selected ranges of one kind that occupy segment s.
Over(S, s) == {v \in S : s \in Span(V(v))}

\* The selections keep their kinds and fit the banks segment by segment; stage B's
\* capacity is what stage A leaves, and the repair adds only where there is room.
FitsInv ==
  /\ pc \in {"selectB", "repair", "sweep"} =>
        /\ selA \subseteq Crossing
        /\ \A s \in Int : Occupancy(selA, s) <= Callee
  /\ pc = "sweep" => todo \subseteq selA \cup selB
  /\ pc \in {"repair", "sweep"} =>
        /\ selB \subseteq FreeGoing /\ rej \subseteq Crossing
        /\ \A s \in Int : Occupancy(selA, s) + Occupancy(selB, s) <= Total

\* Selected ranges are countable, and so are the registers of a class.
LEMMA Countable ==
  ASSUME TypeOK, NEW S, S \subseteq Vregs
  PROVE  /\ IsFiniteSet(S)
         /\ \A s : IsFiniteSet(Over(S, s)) /\ Occupancy(S, s) = Cardinality(Over(S, s))
         /\ \A s : Occupancy(S, s) \in Nat
<1>1. IsFiniteSet(S)
  BY FS_Subset DEF TypeOK, IsProblem, Vregs
<1>2. \A s : Over(S, s) \subseteq S
  BY DEF Over
<1>3. \A s : IsFiniteSet(Over(S, s))
  BY <1>1, <1>2, FS_Subset
<1>4. \A s : Cardinality(Over(S, s)) \in Nat
  BY <1>3, FS_CardinalityType
<1> QED BY <1>1, <1>3, <1>4 DEF Occupancy, Over

\* A class has as many callee-saved registers as registers, or fewer.
LEMMA BankSizes ==
  ASSUME TypeOK, ci \in DOMAIN p.class
  PROVE  /\ Total \in Nat /\ DOMAIN Slots = 1 .. Total
         /\ IsFiniteSet(DOMAIN Slots) /\ Cardinality(DOMAIN Slots) = Total
         /\ Callee \in Nat /\ Callee <= Total
<1>1. Slots \in Seq([reg : Nat, callee : BOOLEAN])
  BY DEF TypeOK, IsProblem, Slots
<1>2. Total \in Nat /\ DOMAIN Slots = 1 .. Total
  BY <1>1 DEF Total
<1>3. IsFiniteSet(DOMAIN Slots) /\ Cardinality(DOMAIN Slots) = Total
  <2>1. 1 \in Int /\ Total \in Int
    BY <1>2
  <2>2. IsFiniteSet(1 .. Total) /\ Cardinality(1 .. Total) = IF 1 > Total THEN 0 ELSE Total - 1 + 1
    BY <2>1, FS_Interval
  <2> QED BY <1>2, <2>2
<1>4. {i \in DOMAIN Slots : Slots[i].callee} \subseteq DOMAIN Slots
  OBVIOUS
<1>5. Callee <= Total
  BY <1>3, <1>4, FS_Subset DEF Callee
<1>6. Callee \in Nat
  BY <1>3, <1>4, FS_Subset, FS_CardinalityType DEF Callee
<1> QED BY <1>2, <1>3, <1>5, <1>6

\* A slot names a register and says who saves it.
LEMMA SlotTypes ==
  ASSUME TypeOK, ci \in DOMAIN p.class
  PROVE  \A i \in DOMAIN Slots : Slots[i].reg \in Nat /\ Slots[i].callee \in BOOLEAN
<1> DEFINE Rec == [reg : Nat, callee : BOOLEAN]
<1>1. Slots \in Seq(Rec)
  BY DEF TypeOK, IsProblem, Slots
<1>2. \A i \in DOMAIN Slots : Slots[i] \in Rec
  <2> HIDE DEF Rec
  <2> QED BY <1>1
<1> QED BY <1>2

\* A selection stays within its capacity in every segment.
LEMMA SelectedFits ==
  ASSUME TypeOK, NEW C, C \subseteq Vregs, NEW cap,
         \A s \in Int : cap[s] \in Nat,
         NEW T \in Selections(C, cap)
  PROVE  T \subseteq C /\ \A s \in Int : Occupancy(T, s) <= cap[s]
<1> DEFINE spans == [v \in C |-> [start |-> SpanStart(V(v)), end |-> SpanEnd(V(v)),
                                  weight |-> V(v).weight]]
           segs == UNION {Span(V(v)) : v \in C}
           caps == [s \in segs |-> cap[s]]
<1>1. T \in BestSelections(spans, caps)
  BY DEF Selections
<1>2. T \subseteq C /\ Feasible(spans, caps, T)
  BY <1>1 DEF BestSelections
<1>3. ASSUME NEW s \in Int PROVE Occupancy(T, s) <= cap[s]
  <2>1. OccupancyOf(spans, T, s) = Occupancy(T, s)
    <3>1. \A v \in T : Segments(spans[v]) = Span(V(v))
      BY <1>2 DEF Segments, Span
    <3>2. {v \in T : s \in Segments(spans[v])} = {v \in T : s \in Span(V(v))}
      BY <3>1
    <3> QED BY <3>2 DEF OccupancyOf, Occupancy
  <2>2. CASE s \in segs
    <3>1. s \in DOMAIN caps /\ caps[s] = cap[s]
      BY <2>2
    <3> HIDE DEF caps, spans, segs
    <3> QED BY <1>2, <2>1, <3>1 DEF Feasible
  <2>3. CASE s \notin segs
    <3>1. {v \in T : s \in Span(V(v))} = {}
      BY <1>2, <2>3
    <3>2. Occupancy(T, s) = 0
      BY <3>1, FS_EmptySet DEF Occupancy
    <3> QED BY <3>2
  <2> QED BY <2>2, <2>3
<1> QED BY <1>2, <1>3

\* A step that leaves the problem, the class and the selections alone.
LEMMA FitsKept ==
  ASSUME FitsInv, UNCHANGED <<p, ci, selA, selB, rej>>,
         pc' = "sweep" => todo' \subseteq selA \cup selB,
         pc' \in {"selectB", "repair", "sweep"} =>
           pc' = pc \/ (pc = "repair" /\ pc' = "sweep")
  PROVE  FitsInv'
BY DEF FitsInv, Occupancy, V, Vregs, OfClass, Crossing, FreeGoing, Callee, Total, Slots

\* Every step keeps the selections within the banks.
LEMMA FitsStep == ASSUME IInv, FitsInv, [Next]_vars PROVE FitsInv'
<1>t. TypeOK
  BY DEF IInv
<1>c. pc \in {"selectB", "repair", "sweep"} => ci \in DOMAIN p.class
  BY DEF IInv, ClassProgress
<1>1. CASE SelectCrossing
  <2>1. /\ pc = "selectA" /\ pc' = "selectB" /\ UNCHANGED <<p, ci>>
        /\ ci <= Len(p.class)
        /\ selA' \in Selections(Crossing, [s \in AllSegs |-> Callee])
    BY <1>1 DEF SelectCrossing
  <2>2. ci \in DOMAIN p.class
    BY <2>1, <1>t DEF TypeOK, IsProblem
  <2>3. Selections(Crossing, [s \in AllSegs |-> Callee]) = Selections(Crossing, [s \in Int |-> Callee])
    <3>1. UNION {Span(V(v)) : v \in Crossing} \subseteq AllSegs
      BY DEF AllSegs, Crossing
    <3>2. UNION {Span(V(v)) : v \in Crossing} \subseteq Int
      BY <1>t DEF TypeOK, IsProblem, IsRange, Crossing, OfClass, Span, SpanStart, SpanEnd, V, Vregs
    <3>3. [s \in UNION {Span(V(v)) : v \in Crossing} |-> [s2 \in AllSegs |-> Callee][s]]
            = [s \in UNION {Span(V(v)) : v \in Crossing} |-> [s2 \in Int |-> Callee][s]]
      BY <3>1, <3>2
    <3> QED BY <3>3 DEF Selections
  <2>4. \A s \in Int : [s2 \in Int |-> Callee][s] = Callee /\ Callee \in Nat
    BY <2>2, <1>t, BankSizes
  <2>5. selA' \subseteq Crossing /\ \A s \in Int : Occupancy(selA', s) <= Callee
    <3>1. Crossing \subseteq Vregs
      BY DEF Crossing, OfClass
    <3>2. \A s \in Int : [s2 \in Int |-> Callee][s] \in Nat
      BY <2>4
    <3>3. /\ selA' \subseteq Crossing
          /\ \A s \in Int : Occupancy(selA', s) <= [s2 \in Int |-> Callee][s]
      BY <2>1, <2>3, <3>1, <3>2, <1>t, SelectedFits
    <3> QED BY <3>3, <2>4
  <2> QED BY <2>1, <2>5 DEF FitsInv, Occupancy, V, Vregs, OfClass, Crossing, Callee, Slots
<1>2. CASE SelectFree
  <2>1. /\ pc = "selectB" /\ pc' = "repair" /\ UNCHANGED <<p, ci, selA>>
        /\ selB' \in Selections(FreeGoing, [s \in AllSegs |-> Residual(s)])
        /\ rej' = Crossing \ selA
    BY <1>2 DEF SelectFree
  <2>2. /\ selA \subseteq Crossing /\ Crossing \subseteq Vregs /\ FreeGoing \subseteq Vregs
        /\ \A s \in Int : Occupancy(selA, s) <= Callee
    BY <2>1 DEF FitsInv, Crossing, FreeGoing, OfClass
  <2>3. Total \in Nat /\ Callee \in Nat /\ Callee <= Total
    BY <2>1, <1>t, <1>c, BankSizes
  <2>4. \A s \in Int : Residual(s) = Total - Occupancy(selA, s) /\ Residual(s) \in Nat
    <3> TAKE s \in Int
    <3>1. Occupancy(selA, s) \in Nat
      BY <1>t, <2>2, Countable
    <3> QED BY <3>1, <2>2, <2>3 DEF Residual
  <2>5. Selections(FreeGoing, [s \in AllSegs |-> Residual(s)])
          = Selections(FreeGoing, [s \in Int |-> Residual(s)])
    <3>1. UNION {Span(V(v)) : v \in FreeGoing} \subseteq AllSegs
      BY DEF AllSegs, FreeGoing
    <3>2. UNION {Span(V(v)) : v \in FreeGoing} \subseteq Int
      BY <1>t DEF TypeOK, IsProblem, IsRange, FreeGoing, OfClass, Span, SpanStart, SpanEnd, V, Vregs
    <3>3. [s \in UNION {Span(V(v)) : v \in FreeGoing} |-> [s2 \in AllSegs |-> Residual(s2)][s]]
            = [s \in UNION {Span(V(v)) : v \in FreeGoing} |-> [s2 \in Int |-> Residual(s2)][s]]
      BY <3>1, <3>2
    <3> QED BY <3>3 DEF Selections
  <2>6. selB' \subseteq FreeGoing /\ \A s \in Int : Occupancy(selB', s) <= Residual(s)
    <3>1. \A s \in Int : [s2 \in Int |-> Residual(s2)][s] \in Nat
      BY <2>4
    <3>2. /\ selB' \subseteq FreeGoing
          /\ \A s \in Int : Occupancy(selB', s) <= [s2 \in Int |-> Residual(s2)][s]
      BY <2>1, <2>2, <2>5, <3>1, <1>t, SelectedFits
    <3> QED BY <3>2
  <2>7. \A s \in Int : Occupancy(selA, s) + Occupancy(selB', s) <= Total
    <3> TAKE s \in Int
    <3>1. Occupancy(selA, s) \in Nat /\ Occupancy(selB', s) \in Nat
      BY <1>t, <2>2, <2>6, Countable
    <3>2. Occupancy(selB', s) <= Total - Occupancy(selA, s)
      BY <2>4, <2>6
    <3> QED BY <3>1, <3>2, <2>3
  <2>8. /\ Crossing' = Crossing /\ FreeGoing' = FreeGoing /\ Total' = Total /\ Callee' = Callee
        /\ \A S, s : Occupancy(S, s)' = Occupancy(S, s)
    BY <2>1 DEF Occupancy, V, Vregs, OfClass, Crossing, FreeGoing, Callee, Total, Slots
  <2>9. \A s \in Int : (Occupancy(selA, s)' = Occupancy(selA, s)) /\ (Occupancy(selB, s)' = Occupancy(selB', s))
    BY <2>1 DEF Occupancy, V
  <2> QED BY <2>1, <2>2, <2>6, <2>7, <2>8, <2>9 DEF FitsInv
<1>3. CASE Repair
  <2>1. PICK v \in rej : /\ selA' = IF HasRoom(v) THEN selA \cup {v} ELSE selA
                         /\ rej' = rej \ {v}
    BY <1>3 DEF Repair
  <2>2. pc = "repair" /\ pc' = "repair" /\ UNCHANGED <<p, ci, selB>>
    BY <1>3 DEF Repair
  <2>3. /\ selA \subseteq Crossing /\ selB \subseteq FreeGoing /\ rej \subseteq Crossing
        /\ Crossing \subseteq Vregs /\ FreeGoing \subseteq Vregs
    BY <2>2 DEF FitsInv, Crossing, FreeGoing, OfClass
  <2>4. Total \in Nat /\ Callee \in Nat
    BY <2>2, <1>t, <1>c, BankSizes
  <2>5. selA' \subseteq Crossing
    BY <2>1, <2>3
  <2>6. ASSUME NEW s \in Int
        PROVE  /\ Occupancy(selA', s) <= Callee
               /\ Occupancy(selA', s) + Occupancy(selB, s) <= Total
    <3>1. /\ Occupancy(selA, s) <= Callee
          /\ Occupancy(selA, s) + Occupancy(selB, s) <= Total
      BY <2>2 DEF FitsInv
    <3>2. Occupancy(selA, s) \in Nat /\ Occupancy(selB, s) \in Nat /\ Occupancy(selA', s) \in Nat
      BY <1>t, <2>3, <2>5, Countable
    <3>3. CASE HasRoom(v) /\ s \in Span(V(v))
      <4>1. Over(selA', s) = Over(selA, s) \cup {v}
        BY <2>1, <3>3 DEF Over
      <4>2. /\ IsFiniteSet(Over(selA, s)) /\ Occupancy(selA, s) = Cardinality(Over(selA, s))
            /\ Occupancy(selA', s) = Cardinality(Over(selA', s))
        BY <1>t, <2>3, <2>5, Countable
      <4>3. Occupancy(selA', s) <= Occupancy(selA, s) + 1
        BY <4>1, <4>2, <3>2, FS_AddElement
      <4>4. /\ Occupancy(selA, s) < Callee
            /\ Occupancy(selA, s) + Occupancy(selB, s) < Total
        BY <3>3 DEF HasRoom
      <4> QED BY <4>3, <4>4, <3>2, <2>4
    <3>4. CASE ~HasRoom(v) \/ s \notin Span(V(v))
      <4>1. Over(selA', s) = Over(selA, s)
        BY <2>1, <3>4 DEF Over
      <4>2. Occupancy(selA', s) = Occupancy(selA, s)
        BY <4>1 DEF Over, Occupancy
      <4> QED BY <4>2, <3>1
    <3> QED BY <3>3, <3>4
  <2>7. /\ Crossing' = Crossing /\ FreeGoing' = FreeGoing /\ Total' = Total /\ Callee' = Callee
    BY <2>2 DEF V, Vregs, OfClass, Crossing, FreeGoing, Callee, Total, Slots
  <2>8. \A s \in Int : (Occupancy(selA, s)' = Occupancy(selA', s)) /\ (Occupancy(selB, s)' = Occupancy(selB, s))
    BY <2>2 DEF Occupancy, V
  <2> QED BY <2>1, <2>2, <2>3, <2>5, <2>6, <2>7, <2>8 DEF FitsInv
<1>4. CASE BeginSweep \/ Place
  <2>1. todo' \subseteq selA \cup selB
    BY <1>4 DEF BeginSweep, Place, FitsInv
  <2> QED BY <1>4, <2>1, FitsKept DEF BeginSweep, Place
<1>5. CASE SkipClass \/ NextClass \/ BeginCoalescing \/ JoinOther \/ JoinMover \/ LeaveApart \/ EndRound
  <2>1. pc' \notin {"selectB", "repair", "sweep"}
    BY <1>5 DEF SkipClass, NextClass, BeginCoalescing, JoinOther, JoinMover, LeaveApart, EndRound, InRound
  <2> QED BY <2>1 DEF FitsInv
<1>6. CASE Done \/ UNCHANGED vars
  BY <1>6, FitsKept DEF Done, vars, FitsInv
<1> QED BY <1>1, <1>2, <1>3, <1>4, <1>5, <1>6 DEF Next

\* The two kinds together fit the class.
LEMMA FitsImpliesSelectionFits == ASSUME IInv, FitsInv PROVE SelectionFits
<1> SUFFICES ASSUME pc \in {"repair", "sweep"}, NEW v \in selA \cup selB, NEW s \in Span(V(v))
             PROVE  /\ Occupancy(selA, s) <= Callee
                    /\ Occupancy(selA \cup selB, s) <= Total
  BY DEF SelectionFits
<1>t. TypeOK
  BY DEF IInv
<1>1. selA \subseteq Vregs /\ selB \subseteq Vregs
  BY <1>t DEF TypeOK
<1>2. s \in Int
  BY <1>t, <1>1 DEF TypeOK, IsProblem, IsRange, Span, SpanStart, SpanEnd, V, Vregs
<1>3. /\ Occupancy(selA, s) <= Callee
      /\ Occupancy(selA, s) + Occupancy(selB, s) <= Total
  BY <1>2 DEF FitsInv
<1>4. Over(selA \cup selB, s) = Over(selA, s) \cup Over(selB, s)
  BY DEF Over
<1>5. /\ IsFiniteSet(Over(selA, s)) /\ Occupancy(selA, s) = Cardinality(Over(selA, s))
      /\ IsFiniteSet(Over(selB, s)) /\ Occupancy(selB, s) = Cardinality(Over(selB, s))
      /\ Occupancy(selA, s) \in Nat /\ Occupancy(selB, s) \in Nat
  BY <1>t, <1>1, Countable
<1>6. Occupancy(selA \cup selB, s) = Cardinality(Over(selA, s) \cup Over(selB, s))
  BY <1>4 DEF Occupancy, Over
<1>7. Cardinality(Over(selA, s) \cap Over(selB, s)) \in Nat
  BY <1>5, FS_Intersection, FS_CardinalityType
<1>8. Cardinality(Over(selA, s) \cup Over(selB, s))
        = Cardinality(Over(selA, s)) + Cardinality(Over(selB, s))
            - Cardinality(Over(selA, s) \cap Over(selB, s))
  BY <1>5, FS_Union
<1>9. Total \in Nat
  BY <1>t, BankSizes DEF IInv, ClassProgress
<1> QED BY <1>3, <1>5, <1>6, <1>7, <1>8, <1>9

-----------------------------------------------------------------------------
(* The demote valve.                                                       *)

\* Every register in use during the sweep is held by a placed range that ends where
\* the slot says and comes before every range still to be placed.
HoldersKnown ==
  pc = "sweep" =>
    \A i \in DOMAIN Slots : slot[i].active =>
      \E w \in (selA \cup selB) \ todo :
         /\ asg[w] = Slots[i].reg /\ V(w).last = slot[i].last
         /\ \A x \in todo : Earlier(w, x)

\* A range still to be placed has no register yet.
TodoUnplaced == pc = "sweep" => \A x \in todo : asg[x] = NoReg

\* What is kept of the sweep's placements.
DemoteInv == FitsInv /\ HoldersKnown /\ TodoUnplaced /\ DemotionOnlyByIntruder

\* A range that has not ended where v begins, and came no later, occupies v's
\* first segment, as v does.
LEMMA SharesFirstSegment ==
  ASSUME NEW r, NEW u, IsRange(r), IsRange(u), r.first = u.first => r.def = u.def,
         r.first <= u.first, ~Expired(r, u)
  PROVE  SpanStart(u) \in Span(r)
BY DEF IsRange, Expired, Span, SpanStart, SpanEnd

\* A range occupies its own first segment.
LEMMA OwnFirstSegment ==
  ASSUME NEW r, IsRange(r)
  PROVE  SpanStart(r) \in Span(r) /\ SpanStart(r) \in Int
BY DEF IsRange, Span, SpanStart, SpanEnd

\* Distinct slots have distinct holders, so the holders of the slots E, all in S and
\* none of them v, and v itself are more than E.
LEMMA HoldersCount ==
  ASSUME IInv, pc = "sweep", NEW E, E \subseteq DOMAIN Slots, NEW S, S \subseteq Vregs,
         NEW v \in S, NEW s \in Span(V(v)),
         \A i \in E : \E w \in S \ {v} : asg[w] = Slots[i].reg /\ s \in Span(V(w))
  PROVE  Cardinality(E) < Occupancy(S, s)
<1> DEFINE Holder(i) == CHOOSE w \in S \ {v} : asg[w] = Slots[i].reg /\ s \in Span(V(w))
           f == [i \in E |-> Holder(i)]
           T == Over(S, s) \ {v}
<1>t. TypeOK /\ ci \in DOMAIN p.class
  BY DEF IInv, ClassProgress
<1>1. \A i \in E : Holder(i) \in T /\ asg[Holder(i)] = Slots[i].reg
  BY DEF Over
<1>2. \A i, j \in E : Slots[i].reg = Slots[j].reg => i = j
  BY <1>t DEF TypeOK, IsProblem, DistinctRegs, Slots
<1>3. f \in [E -> T]
  BY <1>1
<1>4. \A i, j \in E : f[i] = f[j] => i = j
  BY <1>1, <1>2
<1>5. f \in Injection(E, T)
  <2> HIDE DEF f, T
  <2> QED BY <1>3, <1>4 DEF Injection, IsInjective
<1>6. /\ IsFiniteSet(Over(S, s)) /\ Occupancy(S, s) = Cardinality(Over(S, s))
      /\ Occupancy(S, s) \in Nat
  BY <1>t, Countable
<1>7. v \in Over(S, s)
  BY DEF Over
<1>8. IsFiniteSet(T) /\ Cardinality(T) = Occupancy(S, s) - 1
  BY <1>6, <1>7, FS_RemoveElement
<1>9. Cardinality(E) <= Cardinality(T)
  <2> HIDE DEF f, T
  <2> QED BY <1>5, <1>8, FS_Injection
<1>10. Cardinality(E) \in Nat
  BY <1>t, BankSizes, FS_Subset, FS_CardinalityType
<1> QED BY <1>6, <1>8, <1>9, <1>10

\* When no eligible register is open for v, one of them is held by a range that
\* crosses no call.
LEMMA ValveOpensFor ==
  ASSUME IInv, FitsInv, HoldersKnown, pc = "sweep", NEW v \in todo,
         v \in selA \cup selB,
         \A i \in Eligible(V(v)) : Expire(V(v))[i].active
  PROVE  /\ V(v).crosses
         /\ \E w \in selB \ todo :
              /\ asg[w] # NoReg /\ CalleeSaved(ci, asg[w])
              /\ V(w).first <= V(v).first /\ V(v).first <= V(w).last
<1> DEFINE s == SpanStart(V(v))
           Sel == selA \cup selB
<1>t. TypeOK /\ ci \in DOMAIN p.class
  BY DEF IInv, ClassProgress
<1>1. /\ selA \subseteq Crossing /\ selB \subseteq FreeGoing /\ Sel \subseteq Vregs
      /\ \A w \in selA : V(w).crosses /\ V(w).cls = ci
      /\ \A w \in selB : ~V(w).crosses /\ V(w).cls = ci
  BY DEF FitsInv, Crossing, FreeGoing, OfClass
<1>2. \A w \in Sel : IsRange(V(w))
  BY <1>t, <1>1 DEF TypeOK, IsProblem, V, Vregs
<1>3. s \in Span(V(v)) /\ s \in Int
  BY <1>2, OwnFirstSegment
<1>4. slot \in [DOMAIN Slots -> [active : BOOLEAN, last : Nat]]
  BY DEF IInv, ClassProgress
<1>5. /\ DOMAIN Slots = 1 .. Total /\ Total \in Nat /\ Callee \in Nat
      /\ IsFiniteSet(DOMAIN Slots) /\ Cardinality(DOMAIN Slots) = Total
      /\ \A i \in DOMAIN Slots : Slots[i].reg \in Nat /\ Slots[i].callee \in BOOLEAN
  BY <1>t, BankSizes, SlotTypes
<1>6. ASSUME NEW i \in Eligible(V(v))
      PROVE  \E w \in Sel \ todo :
               /\ asg[w] = Slots[i].reg /\ asg[w] # NoReg /\ s \in Span(V(w))
               /\ V(w).first <= V(v).first /\ V(v).first <= V(w).last
  <2>1. i \in DOMAIN Slots
    BY DEF Eligible
  <2>2. slot[i].active /\ ~Expired(slot[i], V(v))
    BY <1>4, <2>1 DEF Expire
  <2>3. PICK w \in Sel \ todo : /\ asg[w] = Slots[i].reg /\ V(w).last = slot[i].last
                                /\ \A x \in todo : Earlier(w, x)
    BY <2>1, <2>2 DEF HoldersKnown
  <2>4. IsRange(V(w)) /\ IsRange(V(v))
    BY <1>2
  <2>5. V(w).first <= V(v).first
    BY <2>3, <2>4 DEF Earlier, IsRange
  <2>6. ~Expired(V(w), V(v))
    BY <2>2, <2>3 DEF Expired
  <2>7. V(v).first <= V(w).last
    BY <2>4, <2>6 DEF Expired, IsRange
  <2>8. V(w).first = V(v).first => V(w).def = V(v).def
    BY <1>t, <1>1 DEF TypeOK, IsProblem, UniformStarts, V, Vregs
  <2>9. s \in Span(V(w))
    BY <2>4, <2>5, <2>6, <2>8, SharesFirstSegment
  <2> QED BY <2>1, <2>3, <2>5, <2>7, <2>9, <1>5, NoRegAssumption
<1>7. V(v).crosses
  <2> SUFFICES ASSUME ~V(v).crosses PROVE FALSE
    OBVIOUS
  <2>1. Eligible(V(v)) = DOMAIN Slots
    BY DEF Eligible
  <2>2. \A i \in DOMAIN Slots : \E w \in Sel \ {v} : asg[w] = Slots[i].reg /\ s \in Span(V(w))
    BY <1>6, <2>1
  <2>3. Total < Occupancy(Sel, s)
    <3> HIDE DEF Sel, s
    <3> QED BY <2>2, <1>1, <1>3, <1>5, HoldersCount DEF Sel
  <2>4. Occupancy(Sel, s) <= Total
    BY <1>3, FitsImpliesSelectionFits DEF SelectionFits
  <2>5. Occupancy(Sel, s) \in Nat
    BY <1>t, <1>1, Countable
  <2> QED BY <2>3, <2>4, <2>5, <1>5
<1>8. \E i \in Eligible(V(v)) : \A w \in Sel \ todo :
        asg[w] = Slots[i].reg /\ s \in Span(V(w)) => w \notin selA
  <2> SUFFICES ASSUME \A i \in Eligible(V(v)) : \E w \in selA \ todo :
                        asg[w] = Slots[i].reg /\ s \in Span(V(w))
               PROVE  FALSE
    OBVIOUS
  <2>1. v \in selA
    BY <1>1, <1>7
  <2>2. Eligible(V(v)) = {i \in DOMAIN Slots : Slots[i].callee}
    BY <1>7 DEF Eligible
  <2>3. \A i \in Eligible(V(v)) : \E w \in selA \ {v} : asg[w] = Slots[i].reg /\ s \in Span(V(w))
    OBVIOUS
  <2>4. Callee < Occupancy(selA, s)
    <3>1. Eligible(V(v)) \subseteq DOMAIN Slots /\ Callee = Cardinality(Eligible(V(v)))
      BY <2>2 DEF Callee
    <3>2. selA \subseteq Vregs
      BY <1>1
    <3> HIDE DEF s
    <3> QED BY <2>1, <2>3, <3>1, <3>2, <1>3, HoldersCount
  <2>5. Occupancy(selA, s) <= Callee
    BY <1>3 DEF FitsInv
  <2>6. Occupancy(selA, s) \in Nat
    BY <1>t, <1>1, Countable
  <2> QED BY <2>4, <2>5, <2>6, <1>5
<1>9. PICK i \in Eligible(V(v)) : \A w \in Sel \ todo :
        asg[w] = Slots[i].reg /\ s \in Span(V(w)) => w \notin selA
  BY <1>8
<1>10. PICK w \in Sel \ todo :
               /\ asg[w] = Slots[i].reg /\ asg[w] # NoReg /\ s \in Span(V(w))
               /\ V(w).first <= V(v).first /\ V(v).first <= V(w).last
  BY <1>6
<1>11. w \in selB
  BY <1>9, <1>10
<1>12. CalleeSaved(ci, asg[w])
  <2>1. i \in DOMAIN Slots /\ Slots[i].callee
    BY <1>7 DEF Eligible
  <2> QED BY <2>1, <1>10 DEF CalleeSaved, Slots
<1> QED BY <1>7, <1>10, <1>11, <1>12

\* Placing one range moves no other, and a slot that stays in use keeps its holder.
LEMMA DemoteStep == ASSUME IInv, DemoteInv, [Next]_vars PROVE DemoteInv'
<1>t. TypeOK
  BY DEF IInv
<1>f. FitsInv'
  BY FitsStep DEF DemoteInv
<1>1. CASE Place
  <2>1. PICK v \in todo :
          /\ \A w \in todo \ {v} : Earlier(v, w)
          /\ todo' = todo \ {v}
          /\ \/ \E i \in Eligible(V(v)) :
                  /\ ~Expire(V(v))[i].active
                  /\ slot' = [Expire(V(v)) EXCEPT ![i] = [active |-> TRUE, last |-> V(v).last]]
                  /\ asg' = [asg EXCEPT ![v] = Slots[i].reg]
             \/ /\ \A i \in Eligible(V(v)) : Expire(V(v))[i].active
                /\ slot' = Expire(V(v)) /\ asg' = asg
    <3>1. \E v \in todo :
            /\ \A w \in todo \ {v} : Earlier(v, w)
            /\ todo' = todo \ {v}
            /\ \/ \E i \in {j \in Eligible(V(v)) : ~Expire(V(v))[j].active} :
                    /\ slot' = [Expire(V(v)) EXCEPT ![i] = [active |-> TRUE, last |-> V(v).last]]
                    /\ asg' = [asg EXCEPT ![v] = Slots[i].reg]
               \/ /\ {j \in Eligible(V(v)) : ~Expire(V(v))[j].active} = {}
                  /\ slot' = Expire(V(v)) /\ asg' = asg
      BY <1>1 DEF Place
    <3> QED BY <3>1
  <2>2. pc = "sweep" /\ pc' = "sweep" /\ UNCHANGED <<p, ci, selA, selB>>
    BY <1>1 DEF Place
  <2>3. /\ selA \subseteq Vregs /\ selB \subseteq Vregs /\ todo \subseteq Vregs /\ v \in Vregs
        /\ asg \in [Vregs -> Nat \cup {NoReg}]
        /\ slot \in [DOMAIN Slots -> [active : BOOLEAN, last : Nat]]
    BY <1>t, <2>2 DEF TypeOK, IInv, ClassProgress
  <2>4. /\ Slots' = Slots /\ \A w : V(w)' = V(w)
        /\ \A c, r : CalleeSaved(c, r)' = CalleeSaved(c, r)
    BY <2>2 DEF Slots, V, CalleeSaved
  <2>5. /\ Expire(V(v)) \in [DOMAIN Slots -> [active : BOOLEAN, last : Nat]]
        /\ \A i \in DOMAIN Slots : Expire(V(v))[i].active => slot[i].active /\ Expire(V(v))[i] = slot[i]
    BY <2>3 DEF Expire
  <2>6. \A w \in Vregs \ {v} : asg'[w] = asg[w]
    BY <2>1, <2>3
  \* a range that was placed before keeps its register, and stays placed
  <2>7. \A w \in (selA \cup selB) \ todo : w # v /\ w \notin todo' /\ asg'[w] = asg[w]
    BY <2>1, <2>3, <2>6
  <2>8. ASSUME NEW i \in DOMAIN Slots, Expire(V(v))[i].active
        PROVE  \E w \in (selA \cup selB) \ todo' :
                  /\ asg'[w] = Slots[i].reg /\ V(w).last = Expire(V(v))[i].last
                  /\ \A x \in todo' : Earlier(w, x)
    <3>1. slot[i].active /\ Expire(V(v))[i] = slot[i]
      BY <2>5, <2>8
    <3>2. PICK w \in (selA \cup selB) \ todo :
            /\ asg[w] = Slots[i].reg /\ V(w).last = slot[i].last
            /\ \A x \in todo : Earlier(w, x)
      BY <2>2, <3>1 DEF DemoteInv, HoldersKnown
    <3> QED BY <3>1, <3>2, <2>1, <2>7
  <2>9. ASSUME NEW u \in (selA \cup selB) \ todo', u # v, asg'[u] = NoReg
        PROVE  /\ V(u).crosses
               /\ \E w \in selB : /\ asg'[w] # NoReg /\ CalleeSaved(ci, asg'[w])
                                  /\ V(w).first <= V(u).first /\ V(u).first <= V(w).last
    <3>1. u \notin todo /\ asg[u] = NoReg
      BY <2>1, <2>3, <2>6, <2>9
    <3>2. PICK w \in selB : /\ asg[w] # NoReg /\ CalleeSaved(ci, asg[w])
                            /\ V(w).first <= V(u).first /\ V(u).first <= V(w).last
      BY <2>2, <3>1 DEF DemoteInv, DemotionOnlyByIntruder
    <3>3. V(u).crosses
      BY <2>2, <3>1 DEF DemoteInv, DemotionOnlyByIntruder
    <3>4. asg'[w] = asg[w]
      <4>1. w # v
        BY <2>2, <3>2, <2>1 DEF DemoteInv, TodoUnplaced
      <4> QED BY <4>1, <2>3, <2>6
    <3> QED BY <3>2, <3>3, <3>4
  <2>10. TodoUnplaced'
    <3>1. \A x \in todo : asg[x] = NoReg
      BY <2>2 DEF DemoteInv, TodoUnplaced
    <3> QED BY <3>1, <2>1, <2>3, <2>6 DEF TodoUnplaced
  <2>11. CASE \E i \in Eligible(V(v)) :
                /\ ~Expire(V(v))[i].active
                /\ slot' = [Expire(V(v)) EXCEPT ![i] = [active |-> TRUE, last |-> V(v).last]]
                /\ asg' = [asg EXCEPT ![v] = Slots[i].reg]
    <3>1. PICK i \in Eligible(V(v)) :
                /\ ~Expire(V(v))[i].active
                /\ slot' = [Expire(V(v)) EXCEPT ![i] = [active |-> TRUE, last |-> V(v).last]]
                /\ asg' = [asg EXCEPT ![v] = Slots[i].reg]
      BY <2>11
    <3>2. i \in DOMAIN Slots /\ ci \in DOMAIN p.class
      BY <2>2 DEF Eligible, IInv, ClassProgress
    <3>3. /\ slot'[i].last = V(v).last /\ \A j \in DOMAIN Slots \ {i} : slot'[j] = Expire(V(v))[j]
          /\ asg'[v] = Slots[i].reg
      BY <3>1, <3>2, <2>3, <2>5
    <3>4. asg'[v] # NoReg
      BY <3>2, <3>3, <1>t, SlotTypes, NoRegAssumption
    <3>5. HoldersKnown'
      <4> SUFFICES ASSUME NEW j \in DOMAIN Slots, slot'[j].active
                   PROVE  \E w \in (selA \cup selB) \ todo' :
                             /\ asg'[w] = Slots[j].reg /\ V(w).last = slot'[j].last
                             /\ \A x \in todo' : Earlier(w, x)
        BY <2>2, <2>4 DEF HoldersKnown, Earlier
      <4>1. CASE j = i
        <5>1. v \in (selA \cup selB) \ todo'
          BY <2>1, <2>2 DEF DemoteInv, FitsInv
        <5> QED BY <4>1, <5>1, <3>3, <2>1
      <4>2. CASE j # i
        BY <4>2, <3>3, <2>8
      <4> QED BY <4>1, <4>2
    <3>6. DemotionOnlyByIntruder'
      BY <2>2, <2>4, <2>9, <3>4 DEF DemotionOnlyByIntruder
    <3> QED BY <1>f, <2>10, <3>5, <3>6 DEF DemoteInv
  <2>12. CASE /\ \A i \in Eligible(V(v)) : Expire(V(v))[i].active
              /\ slot' = Expire(V(v)) /\ asg' = asg
    <3>1. HoldersKnown'
      <4> SUFFICES ASSUME NEW j \in DOMAIN Slots, slot'[j].active
                   PROVE  \E w \in (selA \cup selB) \ todo' :
                             /\ asg'[w] = Slots[j].reg /\ V(w).last = slot'[j].last
                             /\ \A x \in todo' : Earlier(w, x)
        BY <2>2, <2>4 DEF HoldersKnown, Earlier
      <4> QED BY <2>12, <2>8
    <3>2. v \in selA \cup selB
      BY <2>2 DEF DemoteInv, FitsInv
    <3>3. /\ V(v).crosses
          /\ \E w \in selB \ todo :
              /\ asg[w] # NoReg /\ CalleeSaved(ci, asg[w])
              /\ V(w).first <= V(v).first /\ V(v).first <= V(w).last
      BY <2>2, <2>12, <3>2, ValveOpensFor DEF DemoteInv
    <3>4. DemotionOnlyByIntruder'
      BY <2>2, <2>4, <2>9, <2>12, <3>3 DEF DemotionOnlyByIntruder
    <3> QED BY <1>f, <2>10, <3>1, <3>4 DEF DemoteInv
  <2> QED BY <2>1, <2>11, <2>12
<1>2. CASE BeginSweep
  <2>1. /\ pc = "repair" /\ pc' = "sweep" /\ todo' = selA \cup selB /\ slot' = Idle(Total)
        /\ UNCHANGED <<p, ci, selA, selB, asg>>
    BY <1>2 DEF BeginSweep
  <2>2. ci \in DOMAIN p.class /\ Slots' = Slots
    BY <2>1 DEF IInv, ClassProgress, Slots
  <2>3. \A i \in DOMAIN Slots : ~slot'[i].active
    BY <2>1, <2>2, <1>t, BankSizes DEF Idle
  <2>4. \A x \in todo' : x \in Vregs /\ V(x).cls = ci
    BY <2>1 DEF IInv, ClassProgress, OfClass
  <2>5. ci \in Nat
    BY <1>t DEF TypeOK
  <2>6. TodoUnplaced'
    BY <2>1, <2>4, <2>5 DEF IInv, ClassProgress, TodoUnplaced
  <2> QED BY <1>f, <2>1, <2>2, <2>3, <2>6 DEF DemoteInv, HoldersKnown, DemotionOnlyByIntruder
<1>3. CASE SkipClass \/ SelectCrossing \/ SelectFree \/ Repair \/ NextClass \/ BeginCoalescing
           \/ JoinOther \/ JoinMover \/ LeaveApart \/ EndRound
  <2>1. pc' # "sweep"
    BY <1>3 DEF SkipClass, SelectCrossing, SelectFree, Repair, NextClass, BeginCoalescing,
                JoinOther, JoinMover, LeaveApart, EndRound, InRound
  <2> QED BY <1>f, <2>1 DEF DemoteInv, HoldersKnown, TodoUnplaced, DemotionOnlyByIntruder
<1>4. CASE Done \/ UNCHANGED vars
  <2>1. UNCHANGED vars
    BY <1>4 DEF Done
  <2> QED BY <1>f, <2>1 DEF vars, DemoteInv, HoldersKnown, TodoUnplaced, DemotionOnlyByIntruder,
                            V, Slots, Earlier, CalleeSaved
<1> QED BY <1>1, <1>2, <1>3, <1>4 DEF Next

-----------------------------------------------------------------------------
(* Coalescing to a fixpoint.                                               *)

\* Move k is of no use any more.
Stuck(k) == LET a == p.moves[k][1]  b == p.moves[k][2]
            IN  Movable(a, b) => ~MayJoin(a, b) /\ ~MayJoin(b, a)

\* In a round that has changed nothing, the moves gone by are stuck.
\* What is kept of the rounds.
FixpointInv ==
  /\ pc = "coalesce" /\ ~any => \A k \in DOMAIN p.moves : k < mi => Stuck(k)
  /\ pc = "done" /\ round < MaxRounds => \A k \in DOMAIN p.moves : Stuck(k)
  /\ pc = "done" \/ round < MaxRounds

\* What a move can do depends on the problem and the assignment alone.
LEMMA SameAssignmentSameStuck ==
  ASSUME UNCHANGED <<p, asg>>, NEW k
  PROVE  Stuck(k)' <=> Stuck(k)
BY DEF Stuck, Movable, MayJoin, GensCompatible, HullsOverlap, CalleeSaved, V, Vregs

\* Every step keeps it: a move that fires makes the round count, and a round that
\* does not count leaves every move stuck.
LEMMA FixpointStep == ASSUME IInv, FixpointInv, [Next]_vars PROVE FixpointInv'
<1>t. mi \in Nat \ {0} /\ round \in Nat /\ any \in BOOLEAN /\ DOMAIN p.moves = 1 .. Len(p.moves)
      /\ Len(p.moves) \in Nat
  BY DEF IInv, TypeOK, IsProblem
<1>1. CASE JoinOther \/ JoinMover
  <2>1. pc = "coalesce" /\ pc' = "coalesce" /\ any' = TRUE /\ round' = round
    BY <1>1 DEF JoinOther, JoinMover, InRound
  <2> QED BY <2>1 DEF FixpointInv
<1>2. CASE LeaveApart
  <2>1. /\ pc = "coalesce" /\ pc' = "coalesce" /\ mi' = mi + 1 /\ UNCHANGED <<p, asg, round, any>>
        /\ Stuck(mi)
    BY <1>2 DEF LeaveApart, InRound, Stuck, Mover, Other
  <2>2. ASSUME ~any, NEW k \in DOMAIN p.moves, k < mi + 1 PROVE Stuck(k)'
    <3>1. k < mi \/ k = mi
      BY <2>2, <1>t
    <3>2. Stuck(k)
      BY <3>1, <2>1, <2>2 DEF FixpointInv
    <3> QED BY <3>2, <2>1, SameAssignmentSameStuck
  <2> QED BY <2>1, <2>2 DEF FixpointInv
<1>3. CASE EndRound
  <2>1. /\ pc = "coalesce" /\ mi > Len(p.moves) /\ round' = round + 1 /\ UNCHANGED <<p, asg>>
        /\ \/ any /\ round + 1 < MaxRounds /\ mi' = 1 /\ pc' = "coalesce"
           \/ ~(any /\ round + 1 < MaxRounds) /\ pc' = "done"
    BY <1>3 DEF EndRound
  <2>2. CASE mi' = 1 /\ pc' = "coalesce" /\ round + 1 < MaxRounds
    <3>1. \A k \in DOMAIN p.moves : ~(k < mi')
      BY <2>2, <1>t
    <3> QED BY <2>1, <2>2, <3>1 DEF FixpointInv
  <2>3. CASE ~(any /\ round + 1 < MaxRounds) /\ pc' = "done"
    <3>1. ASSUME round' < MaxRounds, NEW k \in DOMAIN p.moves PROVE Stuck(k)'
      <4>1. ~any
        BY <2>1, <2>3, <3>1
      <4>2. k < mi
        BY <2>1, <1>t
      <4>3. Stuck(k)
        BY <2>1, <4>1, <4>2 DEF FixpointInv
      <4> QED BY <4>3, <2>1, SameAssignmentSameStuck
    <3> QED BY <2>1, <2>3, <3>1 DEF FixpointInv
  <2> QED BY <2>1, <2>2, <2>3
<1>4. CASE BeginCoalescing
  <2>1. /\ pc = "selectA" /\ pc' = "coalesce" /\ mi' = 1 /\ UNCHANGED <<p, round>>
    BY <1>4 DEF BeginCoalescing
  <2>2. \A k \in DOMAIN p.moves : ~(k < 1)
    BY <1>t
  <2> QED BY <2>1, <2>2 DEF FixpointInv
<1>5. CASE SkipClass \/ SelectCrossing \/ SelectFree \/ Repair \/ BeginSweep \/ Place \/ NextClass
  <2>1. pc \notin {"coalesce", "done"} /\ pc' \notin {"coalesce", "done"} /\ round' = round
    BY <1>5 DEF SkipClass, SelectCrossing, SelectFree, Repair, BeginSweep, Place, NextClass
  <2> QED BY <2>1 DEF FixpointInv
<1>6. CASE Done \/ UNCHANGED vars
  <2>1. UNCHANGED <<p, pc, asg, round, mi, any>>
    BY <1>6 DEF Done, vars
  <2>2. \A k : Stuck(k)' <=> Stuck(k)
    BY <2>1, SameAssignmentSameStuck
  <2> QED BY <2>1, <2>2 DEF FixpointInv
<1> QED BY <1>1, <1>2, <1>3, <1>4, <1>5, <1>6 DEF Next

-----------------------------------------------------------------------------
(* The theorems about quality.                                             *)

\* All of it together, inductive over IInv.
QualityInv == DemoteInv /\ FixpointInv

\* The entry establishes it, and every step keeps it.
LEMMA FreshQuality == Fresh => QualityInv
<1> SUFFICES ASSUME Fresh PROVE QualityInv
  OBVIOUS
<1>1. pc = "selectA" /\ round = 0 /\ MaxRounds \in Nat \ {0}
  BY MaxRoundsAssumption DEF Fresh
<1> QED BY <1>1 DEF QualityInv, DemoteInv, FitsInv, HoldersKnown, TodoUnplaced,
                   DemotionOnlyByIntruder, FixpointInv

LEMMA QualityStep == ASSUME IInv, QualityInv, [Next]_vars PROVE QualityInv'
BY DemoteStep, FixpointStep DEF QualityInv

\* It holds in every state ralloc_hybrid can reach.
LEMMA QualityInvariance == Spec => []QualityInv
<1>1. Init => QualityInv
  BY InitFresh, FreshQuality
<1>2. IInv /\ QualityInv /\ [Next]_vars => QualityInv'
  BY QualityStep
<1> QED BY <1>1, <1>2, Invariance, PTL DEF Spec

\* At every segment the crossing ranges that keep a register fit the callee-saved bank
\* and all that keep one fit the class, after both stages and the repair, for every
\* best selection the flow may answer with.
THEOREM SelectionAlwaysFits == Spec => []SelectionFits
<1>1. IInv /\ QualityInv => SelectionFits
  BY FitsImpliesSelectionFits DEF QualityInv, DemoteInv
<1> QED BY <1>1, Invariance, QualityInvariance, PTL

\* The demote valve opens only for a call-crossing range at whose start a range that
\* crosses no call holds a callee-saved register: by the count of the holders at its
\* first segment, nothing else can leave it without one.
THEOREM DemotionsExplained == Spec => []DemotionOnlyByIntruder
<1>1. QualityInv => DemotionOnlyByIntruder
  BY DEF QualityInv, DemoteInv
<1> QED BY <1>1, QualityInvariance, PTL

\* Coalescing that stops early has left nothing undone.
THEOREM CoalescingComplete == Spec => []CoalescedToFixpoint
<1>1. QualityInv => CoalescedToFixpoint
  BY DEF QualityInv, FixpointInv, CoalescedToFixpoint, Stuck
<1> QED BY <1>1, QualityInvariance, PTL

-----------------------------------------------------------------------------
(* What the sweep leaves to coalescing.                                    *)

\* Until coalescing begins, ranges of one register have expired for each other.
SweptApart ==
  pc \in {"selectA", "selectB", "repair", "sweep"} =>
    \A v, w \in Promoted :
       (v # w /\ V(v).cls = V(w).cls /\ asg[v] = asg[w])
          => Expired(V(v), V(w)) \/ Expired(V(w), V(v))

LEMMA FreshSwept == Fresh => SweptApart
BY DEF Fresh, SweptApart, Promoted, Vregs

LEMMA SweptStep == ASSUME IInv, SweptApart, [Next]_vars PROVE SweptApart'
<1>1. CASE /\ UNCHANGED <<p, asg>>
           /\ pc' \in {"selectA", "selectB", "repair", "sweep"} =>
                 pc \in {"selectA", "selectB", "repair", "sweep"}
  <2>1. Promoted' = Promoted /\ \A w : V(w)' = V(w)
    BY <1>1 DEF Promoted, Vregs, V
  <2> QED BY <1>1, <2>1 DEF SweptApart
<1>2. CASE Place
  <2>1. PICK v \in todo :
          /\ \A w \in todo \ {v} : Earlier(v, w)
          /\ todo' = todo \ {v}
          /\ \/ \E i \in Eligible(V(v)) :
                  /\ ~Expire(V(v))[i].active
                  /\ slot' = [Expire(V(v)) EXCEPT ![i] = [active |-> TRUE, last |-> V(v).last]]
                  /\ asg' = [asg EXCEPT ![v] = Slots[i].reg]
             \/ asg' = asg
    BY <1>2 DEF Place
  <2>2. pc = "sweep" /\ UNCHANGED <<p, pc, ci>> /\ \A w : V(w)' = V(w)
    BY <1>2 DEF Place, V
  <2>3. CASE \E i \in Eligible(V(v)) :
               /\ ~Expire(V(v))[i].active
               /\ slot' = [Expire(V(v)) EXCEPT ![i] = [active |-> TRUE, last |-> V(v).last]]
               /\ asg' = [asg EXCEPT ![v] = Slots[i].reg]
    <3>1. PICK i \in Eligible(V(v)) :
               /\ ~Expire(V(v))[i].active
               /\ slot' = [Expire(V(v)) EXCEPT ![i] = [active |-> TRUE, last |-> V(v).last]]
               /\ asg' = [asg EXCEPT ![v] = Slots[i].reg]
      BY <2>3
    <3>2. /\ Promoted' = Promoted \cup {v} /\ \A w \in Vregs \ {v} : asg'[w] = asg[w]
          /\ asg'[v] = Slots[i].reg /\ V(v).cls = ci
          /\ \A w \in Promoted : (w # v /\ V(w).cls = ci /\ asg[w] = Slots[i].reg)
                                  => Expired(V(w), V(v))
      BY <2>1, <2>2, <3>1, PlacedStep
    <3>3. ASSUME NEW x \in Promoted', NEW y \in Promoted', x # y,
                 V(x).cls = V(y).cls, asg'[x] = asg'[y]
          PROVE  Expired(V(x), V(y)) \/ Expired(V(y), V(x))
      <4>1. \A w \in Promoted' : w # v => w \in Promoted /\ w \in Vregs /\ asg'[w] = asg[w]
        BY <3>2 DEF Promoted
      <4>2. CASE x = v
        BY <4>1, <4>2, <3>2, <3>3
      <4>3. CASE y = v
        BY <4>1, <4>3, <3>2, <3>3
      <4>4. CASE x # v /\ y # v
        BY <4>1, <4>4, <3>3, <2>2 DEF SweptApart
      <4> QED BY <4>2, <4>3, <4>4
    <3> QED BY <2>2, <3>3 DEF SweptApart
  <2>4. CASE asg' = asg
    BY <1>1, <2>2, <2>4
  <2> QED BY <2>1, <2>3, <2>4
<1>3. CASE JoinOther \/ JoinMover
  <2>1. pc' = "coalesce"
    BY <1>3 DEF JoinOther, JoinMover, InRound
  <2> QED BY <2>1 DEF SweptApart
<1>4. CASE SkipClass \/ SelectCrossing \/ SelectFree \/ Repair \/ BeginSweep \/ NextClass
           \/ BeginCoalescing \/ LeaveApart \/ EndRound \/ Done \/ UNCHANGED vars
  <2>1. /\ UNCHANGED <<p, asg>>
        /\ pc' \in {"selectA", "selectB", "repair", "sweep"} =>
              pc \in {"selectA", "selectB", "repair", "sweep"}
    BY <1>4 DEF SkipClass, SelectCrossing, SelectFree, Repair, BeginSweep, NextClass,
                BeginCoalescing, LeaveApart, InRound, EndRound, Done, vars
  <2> QED BY <1>1, <2>1
<1> QED BY <1>2, <1>3, <1>4 DEF Next

\* Until coalescing begins, two ranges share a register only if one has expired
\* where the other begins: their hulls are apart.
THEOREM SweepKeepsHullsApart == Spec => []SweptApart
<1>1. Init => SweptApart
  BY InitFresh, FreshSwept
<1>2. IInv /\ SweptApart /\ [Next]_vars => SweptApart'
  BY SweptStep
<1> QED BY <1>1, <1>2, Invariance, PTL DEF Spec
=============================================================================
