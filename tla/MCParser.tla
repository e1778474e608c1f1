------------------------------ MODULE MCParser ------------------------------
(***************************************************************************)
(* Programs: expressions of up to three operators, with a prefix and a     *)
(* postfix, statements that nest, and each kind of declaration; and token  *)
(* streams that are a program but for one token, or hold any four tokens.  *)
(***************************************************************************)
EXTENDS Parser

CONSTANTS Edits,     \* the tokens one token of a program is replaced by
          Anything   \* the tokens of the arbitrary streams

Body(slots) == <<{<<"fn", "f", "(", ")", "{">>}>> \o slots \o <<{<<"}", "eof">>}>>
Legal(slots) == [slots |-> slots, legal |-> TRUE]
Illegal(slots) == [slots |-> slots, legal |-> FALSE]

Prefix == {<<>>, <<"-">>, <<"*">>, <<"&">>, <<"-", "*">>}
Operand == {<<"x">>, <<"1">>, <<"(", "x", ")">>, <<"(", "x", "+", "1", ")">>, <<"s", "{", "x", ":", "1", "}">>}
Postfix == {<<>>, <<"as", "i32">>, <<"as", "*", "mut", "i32">>, <<".", "x">>, <<"[", "x", "+", "1", "]">>,
            <<".", "x", "(", "1", ")">>}
Call == {<<"x", "(", ")">>, <<"x", "(", "1", ",", ")">>, <<"x", "(", "1", "+", "x", ",", "x", ")">>}
Operator == {<<o>> : o \in {"||", "&&", "==", "<", "|", "^", "&", "<<", "+", "-", "*"}}
Some == {<<"*">>, <<"-">>, <<"&">>}
One1 == {<<"1">>}
Return == {<<"return">>}
Semi == {<<";">>}

Chains == {Legal(Body(<<Return, One1, Operator, {<<"x">>}, Operator, {<<"-", "x">>}, Operator, One1, Semi>>)),
           Legal(Body(<<Return, Prefix, Operand, Postfix, Postfix, Some, One1, Semi>>)),
           Legal(Body(<<Return, One1, Some, Prefix, Call, Some, One1, Semi>>)),
           Legal(Body(<<Return, One1, Some, {<<"comptime", "x", "(", ")">>}, Some, One1, Semi>>)),
           Illegal(Body(<<Return, {<<"(">>, <<>>}, Operand \cup Call, Postfix, {<<")">>, <<>>}, {<<"(", "1", ")">>}, Semi>>))}

Simple == {<<"let", "x", "=", "1", ";">>, <<"var", "x", ":", "i32", ";">>, <<"x", "=", "1", ";">>,
           <<"*", "x", "=", "1", ";">>, <<"x", ".", "x", "=", "1", ";">>, <<"x", "[", "1", "]", "=", "x", ";">>,
           <<"x", "(", ")", ";">>, <<"return", ";">>, <<"break", ";">>, <<"continue", ";">>,
           <<"defer", "x", "(", ")", ";">>, <<"*", "x", "(", ")", ";">>}
Opening == {<<"{">>, <<"if", "x", "{">>, <<"if", "x", "==", "1", "{">>, <<"while", "x", "<", "1", "{">>,
            <<"for", "x", "in", "1", "..", "x", "{">>, <<"defer", "{">>, <<"if", "x", "{", "x", "=", "1", ";", "}", "else", "{">>,
            <<"if", "x", "{", "}", "else", "if", "x", "{">>}
Few == {<<"x", "=", "1", ";">>, <<"*", "x", "=", "1", ";">>, <<"defer", "x", "(", ")", ";">>}
Nests == {Legal(Body(<<Opening, Few, Opening, Simple, {<<"}">>}, Few, {<<"}">>}>>))}

Methods2 == {<<"fn", "x", "(", "&", "mut", "self", ",", "x", ":", "i32", ")", "->", "i32">>,
             <<"fn", "f", "(", "&", "self", ")">>, <<"fn", "f", "(", "self", ",", ")">>}
Declared ==
  {<<"struct", "s", "{", "x", ":", "i32", ",", "f", ":", "*", "const", "s", ",", "}">>,
   <<"enum", "s", ":", "u64", "{", "x", "=", "1", "+", "1", ",", "f", "}", ";">>,
   <<"enum", "s", "{", "}">>,
   <<"bitmask", "s", "{", "x", ",", "f", "=", "1", "}">>,
   <<"bitfield", "s", "(", "u64", ")", "{", "x", ":", "1", ",", "f", ":", "1", "}", ";">>,
   <<"alias", "s", "=", "*", "mut", "i32", ";">>, <<"const", "x", ":", "i32", "=", "1", ";">>,
   <<"const", "x", "=", "-", "1", ";">>, <<"import", "x", ";">>,
   <<"extern", "fn", "x", "(", "x", ":", "i32", ",", ")", "->", "i32", ";">>,
   <<"#[", "inline", "(", "always", ")", "]", "comptime", "fn", "x", "(", "x", ":", "i32", ",", ")", "{", "}">>,
   <<"#[", "no_inline", "]", "fn", "x", "(", ")", "->", "i32", "{", "return", "1", ";", "}">>}
  \cup {<<"trait", "s", "{">> \o m \o <<";", "}", ";">> : m \in Methods2}
  \cup {<<"impl", "s", "for", "x", "{">> \o m \o <<"{", "}", "}">> : m \in Methods2}
  \cup {<<"impl", "s", "{">> \o m \o <<"{", "}", "}">> : m \in Methods2}
Declarations == {Legal(<<{<<>>, <<"module", "x", ";">>}, Declared, Declared, {<<"eof">>}>>)}

Odd == {<<"use", "x", ":", ":", "f", ";">>, <<"import", "x", ":", ":", "f", ";">>, <<"import", "x", ":", ":", ";">>,
        <<"class", "x", "{", "}">>, <<"dyn", "x", ";">>, <<"#[", "x", "]", "fn">>, <<"comptime", "const">>,
        <<"#[", "deprecated", "]", "struct">>, <<"bitfield", "x", "(", "i32", ")", "{", "x", ":", "0", "}">>}
Tried == {t \o u : t \in Odd, u \in {<<>>, <<"x", "=", "1", ";">>, <<"const", "x", "=", "1", ";">>}}
         \cup {<<"module", "x", ":", a, "x", ":", b>> : a, b \in {":", "+", ";"}}

Programs == Declared \cup {<<"fn", "f", "(", ")", "{">> \o o \o s \o <<"}", "}">> : o \in Opening, s \in Simple}
Edited(d) == {[d EXCEPT ![i] = t] : i \in DOMAIN d, t \in Edits} \cup {RemoveAt(d, i) : i \in DOMAIN d}
Broken == {Illegal(<<Edited(d), {<<"fn", "f", "(", ")", "{", "}", "eof">>}>>) : d \in Programs}
          \cup {Illegal(<<{SubSeq(d, 1, n) : n \in DOMAIN d}, {<<"eof">>}>>) : d \in Programs}
          \cup {Illegal(<<Tried, {<<"eof">>}>>),
                Illegal(Body([i \in 1..4 |-> {<<t>> : t \in Anything}]))}

AllTemplates == Chains \cup Nests \cup Declarations \cup Broken
=============================================================================
