---------------------------- MODULE MCSonMemory ----------------------------
(* Small programs for SonMemory: straight lines, one if, one loop.          *)
EXTENDS SonMemory

Upto(n, kinds) == UNION {[1 .. k -> kinds] : k \in 0 .. n}
Shaped(sh, bodies) == {[shape |-> sh, body |-> b, ret |-> r] : b \in bodies, r \in BOOLEAN}

Begins == {"x=c", "*p=c", "p[i]=c", "f(p)"}
Works == {"x=c", "use x", "*p=c", "use *p", "p=q", "f(p)", "p[i]=c"}
Ends == {"use x", "use *p", "use p[i]", "*p=c", "f(p)"}
All == Works \cup Ends \cup {"p[1]=c", "use p[1]", "use *q"}

Lines == Shaped("line", {<<b, <<>>, <<>>, <<>>>> : b \in [1 .. 4 -> All]})
Diamonds == Shaped("diamond", {<<b, c, d, e>> : b \in Upto(1, Begins), c \in Upto(1, Works),
                                               d \in Upto(1, Works), e \in [1 .. 2 -> Ends]})
Loops == Shaped("loop", {<<b, c, <<>>, e>> : b \in Upto(2, Begins), c \in Upto(2, Works),
                                            e \in Upto(1, Ends)})

MCPrograms == Lines \cup Diamonds \cup Loops

\* Assignments of a fresh allocation to a pointer that has been declared.
Renewing == Shaped("line", {<<b, <<>>, <<>>, <<>>>> : b \in [1 .. 3 -> All \cup {"p=new"}]})
=============================================================================
