----------------------------- MODULE MCRregexec ------------------------------
(***************************************************************************)
(* Every pattern of a few tokens, and some longer ones, over short texts.  *)
(***************************************************************************)
EXTENDS Rregexec

CONSTANTS Length,       \* tokens of the patterns over all of Tokens
          MoreLength    \* and of those over Basic

Rune(r) == [Lexeme("rune") EXCEPT !.rune = r]
Class(k, items) == [Lexeme(k) EXCEPT !.items = items]
Text(ts) == [k \in DOMAIN ts |-> IF ts[k] \in {"a", "b", "e"}
                                 THEN Rune(CASE ts[k] = "a" -> 97
                                             [] ts[k] = "b" -> 98
                                             [] ts[k] = "e" -> 233)
                                 ELSE Lexeme(ts[k])]

Basic == {"a", "b", "*", "|", "(", ")"}
Tokens == Basic \cup {"any", "eol", "bol", "?", "+"}

AllPatterns == {Text(ts) : ts \in UNION {[1 .. n -> Tokens] : n \in 1 .. Length}
                                    \cup [1 .. MoreLength -> Basic]}

\* Groups that are repeated, abandoned or nested, runes beyond ASCII, and
\* patterns that use up the limits.
Longer ==
    {Text(ts) : ts \in
    {<<"a", "any", "b", "|", "b">>,
     <<"(", "a", "|", "b", ")", "*", "b">>,
     <<"(", "a", "*", ")", "+", "b">>,
     <<"(", "(", "a", ")", "|", "b", ")", "+">>,
     <<"(", "a", "|", "a", "b", ")", "(", "b", "|", "a", ")", "?">>,
     <<"(", "a", "*", ")", "(", "b", "|", "a", "b", ")">>,
     <<"a", "|", "b", "(", "a", "|", "b", "(", "a", ")", ")">>,
     <<"e", "|", "a", "e">>, <<"e", "+">>,
     <<"bol", "a", "|", "b", "eol">>,
     <<"(", "a", ")", "(", "b", ")", "(", "a", ")">>,
     <<"(", "a", "*", "(", "b", "?", "a", "*", ")", ")">>}}

\* Spans that overlap, are out of order, are negated, or are cut short.
WithClasses ==
    {<<Class("class", <<97, Dash, 98>>), Lexeme("+")>>,
     <<Class("class", <<98, 10, 97, Dash, 98>>), Rune(98)>>,
     <<Class("class", <<Dash, 97>>)>>, <<Class("class", <<97, Dash>>)>>,
     <<Class("class", <<97, Dash, 97, 97, Dash, 98>>)>>,
     <<Class("class", <<98, 97, Dash, 99, Dash, 97>>)>>,
     <<Class("class", <<43, Dash, Dash>>)>>, <<Class("class", <<43, Dash, Dash, Dash>>)>>,
     <<Class("nclass", <<98>>), Lexeme("+"), Lexeme("eol")>>,
     <<Class("nclass", <<Dash, 97>>)>>,
     <<Class("class", <<97>>), Class("class", <<98>>), Class("class", <<97>>)>>}

MCPatterns == {<<>>} \cup AllPatterns \cup Longer \cup WithClasses

MCTexts == UNION {[1 .. n -> {97, 98, 10}] : n \in 0 .. 2}
             \cup [1 .. 3 -> {97, 98}] \cup {<<97, 233, 233>>}

\* A group that is repeated though its first choice can be empty.
Looping == {Text(<<"(", "a", "*", "|", "b", ")", "*">>)}
=============================================================================
