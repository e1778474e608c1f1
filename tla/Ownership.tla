----------------------------- MODULE Ownership -----------------------------
(***************************************************************************)
(* The abstract values of the strict borrow checker,                       *)
(* jules/src/core/sema/borrow.cpp, for functions over pointers to          *)
(* scalars: what the checker believes of every binding and of every        *)
(* allocation site, how one statement changes it, and how the beliefs of   *)
(* two paths are joined.  Struct fields, '&' borrows of struct locals,     *)
(* arrays and calls of two or more pointers are left out.                  *)
(*                                                                         *)
(* Every operator works on a belief `st`: the open scopes (their bindings  *)
(* and defers), the binding of every name, and the known origins.  An      *)
(* evaluation returns [st, v, ok]; ok is FALSE where the code calls err,   *)
(* and st and v are what the code goes on with, for it does go on while    *)
(* it is silent.                                                           *)
(***************************************************************************)
EXTENDS Integers, Sequences, FiniteSets, SequencesExt, FiniteSetsExt, TLC

CONSTANTS Names,      \* the variables of the function that is checked
          Lent,       \* those of them that are its parameters, in order
          Functions  \* the other functions of the module, in textual order:
                      \* [name, body], a body being "alloc" (returns a new
                      \* allocation), "param" (its parameter) or the name of
                      \* the function it passes its parameter on to

\* An origin is the site of an allocation or a call in the function's text, or
\* -i for parameter i; None marks an untracked value.
None == 0

NoValue == [origin |-> None, shared |-> FALSE, mut_view |-> FALSE,
            pset |-> FALSE, fuzzy |-> FALSE]
NoBind == [val |-> NoValue, dead |-> FALSE]
Fresh == [freed |-> FALSE, live |-> 0]

Known(st, o) == o \in DOMAIN st.origins
Freed(st, o) == Known(st, o) /\ st.origins[o].freed
Live(st, o) == IF Known(st, o) THEN st.origins[o].live ELSE 0
Register(st, o, info) == [st EXCEPT !.origins = (o :> info) @@ @]
InScope(st) == UNION {st.scopes[i].binds : i \in DOMAIN st.scopes}

(***************************************************************************)
(* Return-flow summaries: pass 1 walks the functions in textual order and  *)
(* asks of a callee what is known of it by then.                           *)
(***************************************************************************)
Position(f) == CHOOSE i \in DOMAIN Functions : Functions[i].name = f

RetFlow_Direct == [i \in DOMAIN Functions |-> Functions[i].body = "param"]

\* TRUE: the parameter can reach the returned value.
RetFlow ==
  LET Flow[i \in DOMAIN Functions] ==
        LET body == Functions[i].body
        IN  \/ body = "param"
            \/ body \notin {"alloc", "param"} /\ Position(body) < i /\ Flow[Position(body)]
  IN  Flow

(***************************************************************************)
(* Values stored in bindings keep count of the views of each allocation.   *)
(***************************************************************************)
Acquire(st, v) ==
  IF v.shared /\ v.origin # None
  THEN Register(st, v.origin, [freed |-> Freed(st, v.origin), live |-> Live(st, v.origin) + 1])
  ELSE st

Release(st, v) ==
  IF v.shared /\ Live(st, v.origin) > 0
  THEN [st EXCEPT !.origins[v.origin].live = @ - 1]
  ELSE st

Declare(st, x, v) ==
  [st EXCEPT !.scopes[Len(st.scopes)].binds = @ \cup {x},
             !.bind[x] = [val |-> v, dead |-> FALSE]]

HasLiveAlias(st, o) ==
  \E x \in InScope(st) : /\ ~st.bind[x].dead
                         /\ st.bind[x].val.mut_view
                         /\ st.bind[x].val.origin = o

(***************************************************************************)
(* Expressions.                                                            *)
(***************************************************************************)
Result(st, v, ok) == [st |-> st, v |-> v, ok |-> ok]

\* Reading a name, without moving it: place_val, and eval_use of a name.
PlaceVal(st, x) ==
  IF st.bind[x].dead THEN Result(st, NoValue, FALSE) ELSE Result(st, st.bind[x].val, TRUE)

\* Reading a name into a storage target moves it out of the binding.
Move(st, x) ==
  IF st.bind[x].dead THEN Result(st, NoValue, FALSE)
  ELSE Result([st EXCEPT !.bind[x].dead = TRUE], st.bind[x].val, TRUE)

\* x as *const T: a read-only alias.
View(st, x) ==
  LET r == PlaceVal(st, x)
  IN  IF Freed(st, r.v.origin) THEN Result(st, NoValue, FALSE)
      ELSE [r EXCEPT !.v.shared = TRUE, !.v.mut_view = FALSE]

\* f(x): a new origin for the call site, unless f's summary says that the
\* result is the argument; an origin the site has already is kept.
Call(st, f, x, at) ==
  LET r == PlaceVal(st, x)
  IN  IF RetFlow[Position(f)]
      THEN [r EXCEPT !.v.mut_view = @ \/ (~r.v.shared /\ r.v.origin # None)]
      ELSE [r EXCEPT !.v = [NoValue EXCEPT !.origin = at],
                     !.st = IF Known(st, at) THEN @ ELSE Register(@, at, Fresh)]

EvalTake(st, s, at) ==
  CASE s.form = "alloc" -> Result(Register(st, at, Fresh), [NoValue EXCEPT !.origin = at], TRUE)
    [] s.form = "move"  -> Move(st, s.y)
    [] s.form = "view"  -> View(st, s.y)
    [] OTHER            -> Call(st, s.form, s.y, at)

(***************************************************************************)
(* Statements.                                                             *)
(***************************************************************************)
Let(st, s, at) ==
  LET r == EvalTake(st, s, at) IN [r EXCEPT !.st = Declare(Acquire(@, r.v), s.x, r.v)]

Assign(st, s, at) ==
  LET r == EvalTake(st, s, at)
  IN  [r EXCEPT !.st = [Acquire(Release(@, @.bind[s.x].val), r.v)
                          EXCEPT !.bind[s.x] = [val |-> r.v, dead |-> FALSE]]]

\* *x read.
Deref(st, x) ==
  LET r == PlaceVal(st, x) IN [r EXCEPT !.ok = @ /\ ~Freed(st, r.v.origin)]

Store_OverViews(st, x) ==
  LET r == PlaceVal(st, x)
      o == r.v.origin
  IN  [r EXCEPT !.ok = /\ @ /\ ~r.v.shared
                       /\ o = None \/ (~Freed(st, o) /\ (r.v.mut_view \/ ~HasLiveAlias(st, o)))]

\* *x written: refused through a view; an owner may not write while another
\* name of the allocation is live.
Store(st, x) ==
  LET r == PlaceVal(st, x)
      o == r.v.origin
      Alone == Live(st, o) = 0 /\ ~HasLiveAlias(st, o)
  IN  [r EXCEPT !.ok = /\ @ /\ ~r.v.shared
                       /\ o = None \/ (~Freed(st, o) /\ (r.v.mut_view \/ Alone))]

\* free(x) consumes x, and refuses whatever it does not own alone.
Free(st, x) ==
  LET r == Move(st, x)
      o == r.v.origin
      known == IF o = None \/ Known(r.st, o) THEN r.st ELSE Register(r.st, o, Fresh)
  IN  IF ~r.ok \/ r.v.shared \/ r.v.mut_view \/ r.v.pset \/ o = None
      THEN [r EXCEPT !.ok = FALSE]
      ELSE IF Freed(known, o) \/ Live(known, o) > 0 \/ HasLiveAlias(known, o)
      THEN Result(known, r.v, FALSE)
      ELSE Result([known EXCEPT !.origins[o].freed = TRUE], r.v, TRUE)

Do(st, s, at) ==
  CASE s.op = "let"   -> Let(st, s, at)
    [] s.op = "set"   -> Assign(st, s, at)
    [] s.op = "free"  -> Free(st, s.x)
    [] s.op = "read"  -> Deref(st, s.x)
    [] s.op = "write" -> Store(st, s.x)
    [] s.op = "skip"  -> Result(st, NoValue, TRUE)

(***************************************************************************)
(* Leaving scopes: the defers, latest first, then the drops.               *)
(***************************************************************************)
Then(r, s) == LET d == Do(r.st, s, None) IN [d EXCEPT !.ok = @ /\ r.ok]

Drop(st) ==
  LET gone == Last(st.scopes).binds
      done == FoldSet(LAMBDA x, t : Release(t, st.bind[x].val), st, gone)
  IN  [done EXCEPT !.scopes = Front(@),
                   !.bind = [x \in Names |-> IF x \in gone THEN NoBind ELSE @[x]]]

ExitScope(st) ==
  LET run == FoldLeft(Then, Result(st, NoValue, TRUE), Reverse(Last(st.scopes).defers))
  IN  [run EXCEPT !.st = Drop(@)]

ExitTo(st, depth) ==
  LET Leave(r, i) == LET e == ExitScope(r.st) IN [e EXCEPT !.ok = @ /\ r.ok]
  IN  FoldLeft(Leave, Result(st, NoValue, TRUE), [i \in 1 .. (Len(st.scopes) - depth) |-> i])

Open(st) == [st EXCEPT !.scopes = Append(@, [binds |-> {}, defers |-> << >>])]

(***************************************************************************)
(* Two paths meet.  Of two origins the first is kept.                      *)
(***************************************************************************)
JoinV(a, b) ==
  [origin |-> a.origin, shared |-> a.shared \/ b.shared, mut_view |-> a.mut_view \/ b.mut_view,
   pset |-> a.pset \/ b.pset, fuzzy |-> a.origin # b.origin \/ a.fuzzy \/ b.fuzzy]

JoinBind(a, b) == [val |-> JoinV(a.val, b.val), dead |-> a.dead \/ b.dead]

JoinOrigin(a, b) == [freed |-> a.freed \/ b.freed, live |-> IF a.live > b.live THEN a.live ELSE b.live]

Join(a, b) ==
  [a EXCEPT
     !.bind = [x \in Names |-> IF x \in InScope(a) THEN JoinBind(a.bind[x], b.bind[x]) ELSE @[x]],
     !.origins = [o \in DOMAIN a.origins \cap DOMAIN b.origins |->
                    JoinOrigin(a.origins[o], b.origins[o])] @@ a.origins @@ b.origins]

\* The function is entered with its parameters, which it does not own.
Entered ==
  [scopes |-> <<[binds |-> ToSet(Lent), defers |-> << >>]>>,
   bind |-> [x \in Names |->
               IF Contains(Lent, x)
               THEN [val |-> [NoValue EXCEPT !.origin = -(CHOOSE i \in DOMAIN Lent : Lent[i] = x),
                                        !.pset = TRUE],
                     dead |-> FALSE]
               ELSE NoBind],
   origins |-> << >>]
=============================================================================
