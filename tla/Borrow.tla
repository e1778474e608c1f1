------------------------------- MODULE Borrow -------------------------------
(***************************************************************************)
(* The strict borrow checker's walk over one function,                     *)
(* jules/src/core/sema/borrow.cpp, and then the function itself, run as    *)
(* core/son/builder.cpp lays it out (scopes, defers, jumps), whenever the  *)
(* checker accepts it.                                                     *)
(*                                                                         *)
(* The function is a sequence of statements and of the brackets if, else,  *)
(* while, block and end; a shape has holes, and the walk fills a hole when *)
(* it first gets there.  Conditions read no pointers, and are left out.    *)
(***************************************************************************)
EXTENDS Ownership

CONSTANTS Shapes,  \* the functions to check
          Menus,   \* per kind of hole, the statements it may be
          Turns    \* bound: iterations of a run, over all its loops

VARIABLES prog,     \* the function
          pos,      \* the statement to walk, and later to run, or Halt
          st,       \* what the checker believes there
          fell,     \* whether control reaches it
          frames,   \* the brackets being walked, outermost first
          verdict,  \* "checking", "rejected" or "accepted"
          merged,   \* what the joins have given up
          shook,    \* a reporting round ended elsewhere than the rounds before it
          mem,      \* the run's memory
          turns

vars == <<prog, pos, st, fell, frames, verdict, merged, shook, mem, turns>>

kMaxLoopRounds_One == 1
kMaxLoopRounds == 6
Halt == 0
Brackets == {"if", "while", "block"}
Simple == {"let", "set", "free", "read", "write", "skip"}

\* The bracket that ends the list of statements around i.
Closer(i) ==
  LET Count(ops, j) == Cardinality({k \in (i + 1) .. (j - 1) : prog[k].op \in ops})
  IN  CHOOSE j \in (i + 1) .. Len(prog) :
        prog[j].op \in {"else", "end"} /\ Count(Brackets, j) = Count({"end"}, j)

(***************************************************************************)
(* The walk.                                                               *)
(***************************************************************************)
Sensible(s) ==
  /\ s.y \in InScope(st) \cup {""}
  /\ IF s.op = "let" THEN s.x \notin InScope(st) ELSE s.x \in InScope(st) \cup {""}

Fetched == IF prog[pos].op = "hole" THEN {s \in Menus[prog[pos].form] : Sensible(s)}
           ELSE {prog[pos]}

Walking(ops) ==
  /\ verdict = "checking" /\ fell
  /\ pos \in DOMAIN prog
  /\ prog[pos].op \in ops

\* Errors count outside loops and in a loop's reporting round.
Reporting(fs) == \A k \in DOMAIN fs : fs[k].kind = "while" => fs[k].final
Report(ok, fs) == verdict' = IF ok \/ ~Reporting(fs) THEN verdict ELSE "rejected"

\* What a join gives up: which of two allocations a usable binding holds,
\* whether a binding still has its value, and whether it owns it.
Loses(a, b) ==
  LET Some(Differ(_, _)) == \E x \in InScope(a) : Differ(a.bind[x], b.bind[x])
  IN  {r \in {"origin", "moved", "owner"} :
         CASE r = "origin" -> Some(LAMBDA v, w : ~v.dead /\ ~w.dead /\ v.val.origin # w.val.origin)
           [] r = "moved"  -> Some(LAMBDA v, w : v.dead # w.dead)
           [] r = "owner"  -> Some(LAMBDA v, w : v.val.mut_view # w.val.mut_view)}

Statement ==
  /\ Walking(Simple \cup {"hole"})
  /\ \E s \in {t \in Fetched : t.op \in Simple} : \E r \in {Do(st, s, pos)} :
       /\ st' = r.st
       /\ prog' = [prog EXCEPT ![pos] = s]
       /\ Report(r.ok, frames)
  /\ pos' = pos + 1
  /\ UNCHANGED <<fell, frames, merged, shook, mem, turns>>

\* The body of a defer is walked where its scope is left.
Defer ==
  /\ Walking({"defer", "hole"})
  /\ \E s \in {t \in Fetched : t.op = "defer"} :
       /\ st' = [st EXCEPT !.scopes[Len(st.scopes)].defers = Append(@, [s EXCEPT !.op = s.form])]
       /\ prog' = [prog EXCEPT ![pos] = s]
  /\ pos' = pos + 1
  /\ UNCHANGED <<fell, frames, verdict, merged, shook, mem, turns>>

\* break and continue: a snapshot leaves the scopes of the loop's body.
Jump ==
  /\ Walking({"break", "continue", "hole"})
  /\ \E s \in {t \in Fetched : t.op \in {"break", "continue"}} :
       LET k == Max({i \in DOMAIN frames : frames[i].kind = "while"})
           snap == ExitTo(st, Len(frames[k].cur.scopes))
       IN  /\ frames' = IF s.op = "break" THEN [frames EXCEPT ![k].breaks = Append(@, snap.st)]
                        ELSE [frames EXCEPT ![k].conts = Append(@, snap.st)]
           /\ Report(snap.ok, frames)
           /\ prog' = [prog EXCEPT ![pos] = s]
  /\ pos' = pos + 1
  /\ fell' = FALSE
  /\ UNCHANGED <<st, merged, shook, mem, turns>>

Return ==
  /\ Walking({"return", "hole"})
  /\ \E s \in {t \in Fetched : t.op = "return"} :
       LET v == IF s.form = "" THEN Result(st, NoValue, TRUE) ELSE EvalTake(st, s, pos)
           r == ExitTo(v.st, 0)
       IN  /\ st' = r.st
           /\ Report(v.ok /\ r.ok, frames)
           /\ prog' = [prog EXCEPT ![pos] = s]
  /\ pos' = pos + 1
  /\ fell' = FALSE
  /\ UNCHANGED <<frames, merged, shook, mem, turns>>

\* Nothing behind a jump or a return is walked, up to the end of its list.
PassOver ==
  /\ verdict = "checking" /\ ~fell
  /\ pos \in DOMAIN prog /\ prog[pos].op \notin {"else", "end"}
  /\ pos' = IF frames = << >> THEN Len(prog) + 1 ELSE Closer(pos - 1)
  /\ UNCHANGED <<prog, st, fell, frames, verdict, merged, shook, mem, turns>>

OpenIf ==
  /\ Walking({"if"})
  /\ frames' = Append(frames, [kind |-> "if", other |-> st, fell |-> TRUE])
  /\ st' = Open(st)
  /\ pos' = pos + 1
  /\ UNCHANGED <<prog, fell, verdict, merged, shook, mem, turns>>

\* The end of a list that control falls out of leaves the scope.
Ended == IF fell THEN ExitScope(st) ELSE Result(st, NoValue, TRUE)
Ends(kind) ==
  /\ verdict = "checking"
  /\ pos \in DOMAIN prog /\ prog[pos].op \in {"else", "end"}
  /\ Last(frames).kind = kind

\* The other branch starts from the state before the first.
Else ==
  /\ Ends("if") /\ prog[pos].op = "else"
  /\ \E r \in {Ended} :
       /\ frames' = [frames EXCEPT ![Len(frames)].other = r.st, ![Len(frames)].fell = fell]
       /\ Report(r.ok, frames)
  /\ st' = Open(Last(frames).other)
  /\ fell' = TRUE
  /\ pos' = pos + 1
  /\ UNCHANGED <<prog, merged, shook, mem, turns>>

EndIf ==
  /\ Ends("if") /\ prog[pos].op = "end"
  /\ \E r \in {Ended}, th \in {Last(frames)} :
       /\ st' = IF th.fell /\ fell THEN Join(th.other, r.st) ELSE IF fell THEN r.st ELSE th.other
       /\ merged' = IF th.fell /\ fell THEN merged \cup Loses(th.other, r.st) ELSE merged
       /\ fell' = (th.fell \/ fell)
       /\ Report(r.ok, frames)
  /\ frames' = Front(frames)
  /\ pos' = pos + 1
  /\ UNCHANGED <<prog, shook, mem, turns>>

OpenBlock ==
  /\ Walking({"block"})
  /\ frames' = Append(frames, [kind |-> "block"])
  /\ st' = Open(st)
  /\ pos' = pos + 1
  /\ UNCHANGED <<prog, fell, verdict, merged, shook, mem, turns>>

\* A block leaves its scope even if control does not get to its end.
EndBlock ==
  /\ Ends("block")
  /\ \E r \in {IF st.scopes = << >> THEN Result(st, NoValue, TRUE) ELSE ExitScope(st)} :
       st' = r.st /\ Report(r.ok, frames)
  /\ frames' = Front(frames)
  /\ pos' = pos + 1
  /\ UNCHANGED <<prog, fell, merged, shook, mem, turns>>

OpenLoop ==
  /\ Walking({"while"})
  /\ frames' = Append(frames, [kind |-> "while", at |-> pos, cur |-> st, round |-> 0,
                               final |-> FALSE, breaks |-> << >>, conts |-> << >>])
  /\ st' = Open(st)
  /\ pos' = pos + 1
  /\ UNCHANGED <<prog, fell, verdict, merged, shook, mem, turns>>

\* What a round ends with: its entry, its fall-through and its continues.
Met(f) == FoldLeft(Join, f.cur, (IF fell THEN <<Ended.st>> ELSE << >>) \o f.conts)
Parted(f) == LET ways == (IF fell THEN <<Ended.st>> ELSE << >>) \o f.conts \o f.breaks
             IN  UNION {Loses(f.cur, ways[i]) : i \in DOMAIN ways}

\* A silent round, after which the loop is walked again: silently while its
\* entry changes, kMaxLoopRounds times at most, and then to report.  The scope's
\* defers report as the code around the loop does.
EndRound ==
  /\ Ends("while") /\ ~Last(frames).final
  /\ \E f \in {Last(frames)} : \E nxt \in {Met(f)} :
       /\ frames' = [frames EXCEPT ![Len(frames)] =
                       [@ EXCEPT !.cur = nxt, !.round = f.round + 1,
                                 !.final = (nxt = f.cur \/ f.round + 1 = kMaxLoopRounds),
                                 !.breaks = << >>, !.conts = << >>]]
       /\ st' = Open(nxt)
       /\ pos' = f.at + 1
       /\ merged' = merged \cup Parted(f)
  /\ fell' = TRUE
  /\ Report(Ended.ok, Front(frames))
  /\ UNCHANGED <<prog, shook, mem, turns>>

Steady(a, b) == a.bind = b.bind /\ \A o \in DOMAIN b.origins : Freed(a, o) = Freed(b, o)

\* The reporting round: the loop is left.
EndLoop ==
  /\ Ends("while") /\ Last(frames).final
  /\ \E f \in {Last(frames)} : \E nxt \in {Met(f)} :
       /\ st' = FoldLeft(Join, nxt, f.breaks)
       /\ shook' = (shook \/ ~Steady(f.cur, nxt))
       /\ merged' = merged \cup Parted(f)
  /\ Report(Ended.ok, Front(frames))
  /\ frames' = Front(frames)
  /\ fell' = TRUE
  /\ pos' = pos + 1
  /\ UNCHANGED <<prog, mem, turns>>

\* The end of the function: whatever scopes are left are left.
Finish ==
  /\ verdict = "checking" /\ pos = Len(prog) + 1
  /\ verdict' = IF ExitTo(st, 0).ok THEN "accepted" ELSE "rejected"
  /\ pos' = 1
  /\ st' = Entered
  /\ UNCHANGED <<prog, fell, frames, merged, shook, mem, turns>>

(***************************************************************************)
(* The run of an accepted function.  Memory cells are numbered as they are *)
(* allocated; the cells lent by the caller come first.                     *)
(***************************************************************************)
Booted ==
  [cell |-> [x \in Names |-> IF Contains(Lent, x) THEN CHOOSE i \in DOMAIN Lent : Lent[i] = x ELSE 0],
   next |-> Len(Lent) + 1,
   freed |-> {},            \* cells
   gone |-> {},             \* names moved out of
   guests |-> {},           \* names that hold a view or a call's result
   scopes |-> <<[binds |-> ToSet(Lent), defers |-> << >>, at |-> 0]>>,
   faults |-> {}]

\* Where a call of f gets its result.
Returns(f) ==
  LET From[n \in 0 .. Len(Functions), g \in {Functions[i].name : i \in DOMAIN Functions}] ==
        LET body == Functions[Position(g)].body
        IN  IF body \in {"alloc", "param"} THEN body ELSE IF n = 0 THEN "alloc" ELSE From[n - 1, body]
  IN  From[Len(Functions), f]

Faulty(m, if, fault) == IF if THEN [m EXCEPT !.faults = @ \cup {fault}] ELSE m
Touch(m, x) == Faulty(m, m.cell[x] \in m.freed, "use after free")
Held(m) == UNION {m.scopes[i].binds : i \in DOMAIN m.scopes} \ m.gone
Companions(m, x) == {y \in Held(m) \ {x} : m.cell[y] = m.cell[x]}

\* The value of s: its cell, and whether it is a view or a call's result.
Got(m, s) ==
  IF s.form = "alloc" \/ (s.form \notin {"move", "view"} /\ Returns(s.form) = "alloc")
  THEN [cell |-> m.next, guest |-> FALSE]
  ELSE [cell |-> m.cell[s.y], guest |-> s.form # "move" \/ s.y \in m.guests]

\* A callee reads what it is passed.
Fetch(m, s) ==
  LET m1 == IF s.form \in {"alloc", "move", "view"} THEN m ELSE Touch(m, s.y)
  IN  [m1 EXCEPT !.gone = IF s.form = "move" THEN @ \cup {s.y} ELSE @,
                 !.next = IF Got(m, s).cell = @ THEN @ + 1 ELSE @]

Put(m, x, v) ==
  [m EXCEPT !.cell[x] = v.cell, !.gone = @ \ {x},
            !.guests = IF v.guest THEN @ \cup {x} ELSE @ \ {x}]

RunDo(m, s) ==
  CASE s.op = "let"   -> [Put(Fetch(m, s), s.x, Got(m, s)) EXCEPT !.scopes[Len(m.scopes)].binds = @ \cup {s.x}]
    [] s.op = "set"   -> Put(Fetch(m, s), s.x, Got(m, s))
    [] s.op = "read"  -> Touch(m, s.x)
    [] s.op = "write" -> Faulty(Touch(m, s.x), s.x \notin m.guests /\ Companions(m, s.x) # {}, "written while seen")
    [] s.op = "free"  ->
         LET m1 == Faulty(m, m.cell[s.x] \in m.freed, "double free")
             m2 == Faulty(m1, m.cell[s.x] \in DOMAIN Lent, "freed what was lent")
             m3 == Faulty(m2, Companions(m, s.x) # {}, "freed while seen")
         IN  [m3 EXCEPT !.freed = @ \cup {m.cell[s.x]}, !.gone = @ \cup {s.x}]
    [] s.op = "skip"  -> m

RunExit(m) ==
  LET done == FoldLeft(RunDo, m, Reverse(Last(m.scopes).defers))
      left == Last(m.scopes).binds
  IN  [done EXCEPT !.scopes = Front(@), !.gone = @ \ left, !.guests = @ \ left,
                   !.cell = [x \in Names |-> IF x \in left THEN 0 ELSE @[x]]]

RunExits(m, n) == FoldLeft(LAMBDA a, i : RunExit(a), m, [i \in 1 .. n |-> i])

Enter(m) == [m EXCEPT !.scopes = Append(@, [binds |-> {}, defers |-> << >>, at |-> pos])]

Running(ops) ==
  /\ verdict = "accepted"
  /\ pos \in DOMAIN prog
  /\ prog[pos].op \in ops
  /\ UNCHANGED <<prog, st, fell, frames, verdict, merged, shook>>

RunStatement ==
  /\ Running(Simple)
  /\ mem' = RunDo(mem, prog[pos])
  /\ pos' = pos + 1
  /\ UNCHANGED turns

RunDefer ==
  /\ Running({"defer"})
  /\ mem' = [mem EXCEPT !.scopes[Len(mem.scopes)].defers = Append(@, [prog[pos] EXCEPT !.op = prog[pos].form])]
  /\ pos' = pos + 1
  /\ UNCHANGED turns

RunIf ==
  /\ Running({"if"})
  /\ mem' = Enter(mem)
  /\ pos' \in {pos + 1, Closer(pos) + 1}
  /\ UNCHANGED turns

RunBlock ==
  /\ Running({"block"})
  /\ mem' = Enter(mem)
  /\ pos' = pos + 1
  /\ UNCHANGED turns

RunWhile ==
  /\ Running({"while"})
  /\ \/ /\ turns < Turns
        /\ mem' = Enter(mem)
        /\ pos' = pos + 1
        /\ turns' = turns + 1
     \/ /\ pos' = Closer(pos) + 1
        /\ UNCHANGED <<mem, turns>>

\* A branch, a block or an iteration is over.
RunEnd ==
  /\ Running({"else", "end"})
  /\ mem' = RunExit(mem)
  /\ pos' = LET at == Last(mem.scopes).at
            IN  IF prog[at].op = "while" THEN at
                ELSE IF prog[pos].op = "else" THEN Closer(pos) + 1 ELSE pos + 1
  /\ UNCHANGED turns

RunJump ==
  /\ Running({"break", "continue"})
  /\ LET k == Max({i \in 2 .. Len(mem.scopes) : prog[mem.scopes[i].at].op = "while"})
         at == mem.scopes[k].at
     IN  /\ mem' = RunExits(mem, Len(mem.scopes) + 1 - k)
         /\ pos' = IF prog[pos].op = "break" THEN Closer(at) + 1 ELSE at
  /\ UNCHANGED turns

\* The value is computed, the defers run, and the caller reads what it gets.
RunReturn ==
  /\ Running({"return"})
  /\ \E m \in {IF prog[pos].form = "" THEN mem ELSE Fetch(mem, prog[pos])} :
     \E done \in {RunExits(m, Len(m.scopes))} :
       mem' = Faulty(done, prog[pos].form # "" /\ Got(mem, prog[pos]).cell \in done.freed, "returned freed")
  /\ pos' = Halt
  /\ UNCHANGED turns

RunFinish ==
  /\ verdict = "accepted" /\ pos = Len(prog) + 1
  /\ mem' = RunExits(mem, Len(mem.scopes))
  /\ pos' = Halt
  /\ UNCHANGED <<prog, st, fell, frames, verdict, merged, shook, turns>>

BorrowInit ==
  /\ prog \in Shapes
  /\ pos = 1
  /\ st = Entered /\ fell = TRUE /\ frames = << >>
  /\ verdict = "checking" /\ merged = {} /\ shook = FALSE
  /\ mem = Booted /\ turns = 0

BorrowNext ==
  \/ Statement \/ Defer \/ Jump \/ Return \/ PassOver
  \/ OpenIf \/ Else \/ EndIf \/ OpenBlock \/ EndBlock \/ OpenLoop \/ EndRound \/ EndLoop \/ Finish
  \/ RunStatement \/ RunDefer \/ RunIf \/ RunBlock \/ RunWhile \/ RunEnd \/ RunJump \/ RunReturn \/ RunFinish

(***************************************************************************)
(* Properties.                                                             *)
(***************************************************************************)
Stale == {"use after free", "double free", "returned freed"}

\* Borrow soundness.  As long as no join had to choose between two allocations
\* that a usable binding may hold, an accepted function never reads, writes,
\* passes on or returns freed memory, and frees nothing twice: through moves,
\* views, results that alias an argument, branches, rounds of loops, early exits
\* and defers. (Of views that are returned past a defer it says nothing: README.)
SafeWhenExact == "origin" \notin merged => mem.faults \cap Stale = {}

\* Aliasing discipline.  As long as the joins gave nothing up, an accepted
\* function frees an allocation only when no other name holds it, and an owner
\* writes only then.
ExclusiveWhenExact ==
  merged = {} => mem.faults \cap {"freed while seen", "written while seen"} = {}

\* What the caller lends comes back: an accepted function never frees it, under
\* whatever name and after whatever joins and calls of functions declared before it.
LentComesBack == "freed what was lent" \notin mem.faults

\* The cap on the silent rounds is high enough: the reporting round of a loop
\* starts from bindings and freed origins that it maintains.
RoundsSuffice == ~shook

\* Does not hold.  An accepted function never touches freed memory, as
\* core/sema/borrow.h promises.
AcceptedIsSafe == mem.faults \cap Stale = {}

BorrowSpec == BorrowInit /\ [][BorrowNext]_vars
=============================================================================
