------------------------------- MODULE Regular -------------------------------
(***************************************************************************)
(* What a regular expression means, without a machine: which parts of a    *)
(* sequence of tokens are a piece, a branch or a whole expression, and for *)
(* which spans of a text they stand.                                       *)
(***************************************************************************)
EXTENDS Regcomp, FiniteSets

\* The places between the characters of a text.
Places(text) == 0 .. Len(text)
Empties(text) == {<<i, i>> : i \in Places(text)}

Joined(R, S) == UNION {{<<x[1], y[2]>> : y \in {y \in S : y[1] = x[2]}} : x \in R}

\* j is in every set of places that R leads to from i and not out of.
Closure(R, text) ==
    {x \in Places(text) \X Places(text) :
       \A S \in SUBSET Places(text) :
          (\A r \in R : r[1] = x[1] \/ r[1] \in S => r[2] \in S) => x[2] \in S}

-----------------------------------------------------------------------------
(* Letters *)

Letters == {"rune", "any", "bol", "eol", "class", "nclass"}

\* The tokens.
Lexemes == [kind : Letters \cup Operators, rune : Nat, items : Seq(Nat \cup {Dash})]

\* The dashes of a class that stretch a range: those that no such dash
\* precedes.  Before the first item of a negated class is the newline.
Stretching(items) ==
    CHOOSE S \in SUBSET DOMAIN items :
        \A k \in DOMAIN items : k \in S <=> items[k] = Dash /\ k - 1 \notin S

\* A range goes from a rune that ends no other one to the last of those that
\* dashes stretch it to.
InClass(class, r) ==
    LET S == Stretching(class.items)
        first == IF class.kind = "nclass" THEN 0 ELSE 1
        At(k) == IF k = 0 THEN Newline ELSE RuneOf(class.items[k])
    IN  \E k, l \in first .. Len(class.items) :
          /\ k \notin S /\ k - 1 \notin S /\ l \notin S
          /\ k <= l /\ l + 1 \notin S
          /\ \A m \in k .. l : m \in S <=> (m - k) % 2 = 1
          /\ At(k) <= r /\ r <= At(l)

\* Whether the letter t stands for the text from i to j.
Letter(t, text, i, j) ==
    LET len == Len(text)
    IN  CASE t.kind = "bol" -> i = j /\ (i = 0 \/ text[i] = Newline)
          [] t.kind = "eol" -> i = j /\ (i = len \/ text[i + 1] = Newline)
          [] OTHER ->
               /\ j = i + 1 /\ j <= len
               /\ CASE t.kind = "any" -> text[j] # Newline
                    [] t.kind = "rune" -> text[j] = t.rune
                    [] t.kind = "class" -> InClass(t, text[j])
                    [] t.kind = "nclass" -> ~ InClass(t, text[j])

LetterSpans(t, text) ==
    {x \in Places(text) \X Places(text) : Letter(t, text, x[1], x[2])}

Repeated(op, R, text) ==
    CASE op = "*" -> Closure(R, text) \cup Empties(text)
      [] op = "+" -> Closure(R, text)
      [] op = "?" -> R \cup Empties(text)

-----------------------------------------------------------------------------
(* The grammar.  A fact says that the tokens from one to another are a      *)
(* piece, a branch (pieces in a row) or a tree (branches with bars between  *)
(* them), and for which spans of the text they stand.                       *)

Fact(kind, from, to, spans) == [kind |-> kind, from |-> from, to |-> to, spans |-> spans]
As(kind, facts) == {[f EXCEPT !.kind = kind] : f \in facts}

Pieces(ts, text, n, facts) ==
    {Fact("piece", k, k, LetterSpans(ts[k], text)) :
       k \in {k \in DOMAIN ts : n = 1 /\ ts[k].kind \in Letters}}
    \cup
    {Fact("piece", f.from, f.to + 1, Repeated(ts[f.to + 1].kind, f.spans, text)) :
       f \in {f \in facts : /\ f.kind = "piece" /\ f.to - f.from = n - 2
                            /\ f.to < Len(ts) /\ ts[f.to + 1].kind \in {"*", "+", "?"}}}
    \cup
    {Fact("piece", f.from - 1, f.to + 1, f.spans) :
       f \in {f \in facts : /\ f.kind = "tree" /\ f.to - f.from = n - 3
                            /\ f.from > 1 /\ ts[f.from - 1].kind = "("
                            /\ f.to < Len(ts) /\ ts[f.to + 1].kind = ")"}}

Branches(n, facts, pieces) ==
    As("branch", pieces) \cup
    UNION {{Fact("branch", f.from, g.to, Joined(f.spans, g.spans)) :
              g \in {g \in facts : /\ g.kind = "piece" /\ g.from = f.to + 1
                                   /\ g.to - f.from = n - 1}} :
           f \in {f \in facts : f.kind = "branch"}}

Trees(ts, n, facts, branches) ==
    As("tree", branches) \cup
    UNION {{Fact("tree", f.from, g.to, f.spans \cup g.spans) :
              g \in {g \in facts : /\ g.kind = "branch" /\ g.from = f.to + 2
                                   /\ g.to - f.from = n - 1}} :
           f \in {f \in facts : /\ f.kind = "tree" /\ f.to < Len(ts)
                                /\ ts[f.to + 1].kind = "|"}}

\* The facts about n tokens, from those about fewer.
Extended(ts, text, n, facts) ==
    LET pieces   == Pieces(ts, text, n, facts)
        branches == Branches(n, facts, pieces)
    IN  facts \cup pieces \cup branches \cup Trees(ts, n, facts, branches)

Facts(ts, text) ==
    LET Upto[n \in 0 .. Len(ts)] == IF n = 0 THEN {} ELSE Extended(ts, text, n, Upto[n - 1])
    IN  Upto[Len(ts)]

\* What a pattern stands for in a text, if it is an expression; the empty
\* pattern stands for nothing at every place.
Meanings(ts, text) ==
    IF ts = <<>> THEN {Empties(text)}
    ELSE {f.spans : f \in {f \in Facts(ts, text) :
                             f.kind = "tree" /\ f.from = 1 /\ f.to = Len(ts)}}

Brackets(ts, k) == Cardinality({l \in 1 .. k : ts[l].kind = "("})

\* What the group that the n-th bracket opens stands for.
GroupMeanings(ts, text, n) ==
    {f.spans : f \in {f \in Facts(ts, text) :
       /\ f.kind = "tree" /\ f.from > 1 /\ f.to < Len(ts)
       /\ ts[f.from - 1].kind = "(" /\ ts[f.to + 1].kind = ")"
       /\ Brackets(ts, f.from - 1) = n}}

\* The leftmost of the spans, and among those the longest.
Leftmost(spans) ==
    CHOOSE s \in spans : \A z \in spans : s[1] < z[1] \/ (s[1] = z[1] /\ s[2] >= z[2])
=============================================================================
