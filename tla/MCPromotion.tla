---------------------------- MODULE MCPromotion ----------------------------
(* Small programs for Promotion: straight lines, one if, one loop.          *)
EXTENDS Promotion

Ints == {"u", "v", "w"}
Copying == {<<"copy", x, y>> : x, y \in Ints}
Uses == {<<"use", x>> : x \in Ints}
Pointer == {<<"*p=c">>, <<"use *p">>, <<"p=new">>, <<"f(p)">>}
One(S) == {<<x>> : x \in S}
Two(S) == {<<x, y>> : x, y \in S}
Three(S) == {<<x, y, z>> : x, y, z \in S}

Lines == {[shape |-> "line", body |-> <<b, <<>>, <<>>, <<>>>>] :
            b \in Three(Copying \cup Pointer \cup {<<"use", "u">>})}
Diamonds == {[shape |-> "diamond", body |-> <<b, c, d, e>>] :
               b \in {<<<<"*p=c">>>>}, c \in Two(Copying \cup Pointer),
               d \in One({<<"copy", "u", "v">>, <<"inc", "u">>, <<"f(p)">>}),
               e \in One({<<"use", "u">>, <<"use *p">>})}
Turning == Copying \cup {<<"inc", "u">>, <<"set", "v">>, <<"f(p)">>}
Loops == {[shape |-> "loop", body |-> <<b, c, <<>>, e>>] :
            b \in {<<>>, <<<<"*p=c">>>>}, c \in One(Turning) \cup Two(Turning) \cup Three(Turning),
            e \in {<<<<"use", "u">>, <<"use", "v">>, <<"use *p">>>>}}

\* Nothing is forwarded across a call: what follows one starts from loads.
Called == {[shape |-> "line", body |-> <<<<<<"f(p)">>, x, y, <<"f(p)">>, z>>, <<>>, <<>>, <<>>>>] :
             x, y \in Copying, z \in Uses}

MCPrograms == Called \cup Lines \cup Diamonds \cup Loops
=============================================================================
