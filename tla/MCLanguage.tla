----------------------------- MODULE MCLanguage ------------------------------
(* The programs that the compiler and the virtual machine are checked with. *)
EXTENDS Language

S(x) == Sym(x)
L(xs) == MakeList(xs)
N(n) == Num(n)
Q(x) == Form("quote", <<x>>)
Fn(params, body) == Form("fn", <<params>> \o body)
Let(name, x, body) == L(<<Fn(L(<<S(name)>>), body), x>>)
Listing(xs) == FoldRight(LAMBDA x, rest : Form("cons", <<x, rest>>), xs, Nil)

Glob == [g |-> N(7), no |-> Builtin("no"), append |-> Builtin("append"),
         dlist |-> Builtin("dlist"), apply |-> Builtin("apply"),
         idiv |-> Builtin("idiv"), mod |-> Builtin("mod"), coerce |-> Builtin("coerce")]

-----------------------------------------------------------------------------
(* Calls of functions with all kinds of parameters.  A parameter comes with *)
(* the names it binds; those of the first are told from those of the second.*)

O(x, default) == Form("o", <<S(x), default>>)
Patterns(a, b) ==
    { [arg |-> L(<<S(a), S(b)>>), names |-> <<a, b>>],
      [arg |-> Pair(S(a), S(b)), names |-> <<a, b>>],
      [arg |-> L(<<Nil, S(b)>>), names |-> <<b>>],
      [arg |-> L(<<L(<<S(a)>>), S(b)>>), names |-> <<a, b>>],
      [arg |-> L(<<S(a), O(b, Form("+", <<S(a), N(1)>>))>>), names |-> <<a, b>>],
      [arg |-> L(<<O(a, N(5)), O(b, S(a))>>), names |-> <<a, b>>] }
Plain(a) == { [arg |-> S(a), names |-> <<a>>], [arg |-> Nil, names |-> <<>>] }
Optionals(a, earlier) ==
    { [arg |-> Form("o", <<S(a)>>), names |-> <<a>>],
      [arg |-> O(a, Form("assign", <<S("g"), N(5)>>)), names |-> <<a>>] }
    \union { [arg |-> O(a, S(e)), names |-> <<a>>] : e \in earlier }

\* Parameter lists without the rest: sequences of the above.
Singles == { <<p>> : p \in Plain("a") \union Patterns("a", "b") \union Optionals("a", {"g"}) }
Doubles == { <<p, q>> : p \in Plain("a") \union Patterns("a", "b"),
                        q \in Plain("x") \union Patterns("x", "y") \union Optionals("x", {"g"}) }
           \union { <<p, q>> : p \in Plain("a") \union Optionals("a", {}),
                               q \in Optionals("x", {"a"}) }
IsPattern(p) == IsCons(p.arg) /\ ~ IsOptional(p.arg)

ArgValues == {Nil, N(1), Q(L(<<N(1), N(2)>>)), Q(L(<<L(<<N(1)>>)>>))}
ArgLists == [1..0 -> ArgValues] \union [1..1 -> ArgValues] \union [1..2 -> ArgValues \ {Nil}]
            \union { <<N(1), Nil, v>> : v \in ArgValues } \union {<<N(1), N(2), N(3), N(4)>>}

\* The call ((fn (params . rest) names) . args).
CallOf(params, rest, args) ==
    LET names == FoldLeft(LAMBDA ns, p : ns \o p.names, <<>>, params)
        all   == [i \in DOMAIN names |-> S(names[i])] \o rest
        tail  == IF rest = <<>> THEN Nil ELSE rest[1]
    IN  L(<<Fn(Dotted([i \in DOMAIN params |-> params[i].arg], tail),
               <<Listing(all \o <<S("g")>>)>>)>> \o args)

FixedCalls == { CallOf(ps, <<>>, args) : ps \in Singles \union Doubles, args \in ArgLists }
RestCalls == { CallOf(ps, <<S("r")>>, args) :
                 ps \in { qs \in Singles \union Doubles \union {<<>>} :
                            \A i \in DOMAIN qs : ~ IsPattern(qs[i]) \/ qs[i].arg = Nil },
                 args \in ArgLists }
PatternRestCalls == { CallOf(<<p>>, <<S("r")>>, args) :
                        p \in Patterns("a", "b"), args \in {<<Q(L(<<N(1), N(2)>>)), N(3)>>} }

-----------------------------------------------------------------------------
(* Expressions in a function of a and of the list l.                         *)

Inner == { Nil, S("a"), S("g"), Form("car", <<S("l")>>), Form("cons", <<S("a"), Nil>>),
           Form("assign", <<S("a"), N(5)>>), Form("if", <<S("a"), N(3)>>),
           Form("if", <<Nil, N(3), S("a"), N(4), S("l")>>),
           Let("b", N(4), <<Form("assign", <<S("a"), S("b")>>)>>),
           Form("no", <<S("a")>>), L(<<Fn(Nil, <<S("a")>>)>>) }
Both(x, y) == { Form("cons", <<x, y>>), Form("if", <<x, y, S("g")>>), Form("if", <<x, y>>),
                Form("if", <<Nil, S("a"), x, y>>),
                L(<<Fn(L(<<S("b")>>), <<x>>), y>>),
                L(<<Fn(L(<<S("b")>>), <<Form("assign", <<S("g"), x>>), S("b")>>), y>>),
                Form("assign", <<S("g"), x, S("a"), y>>),
                L(<<Fn(L(<<S("a"), O("b", x)>>), <<Form("cons", <<S("a"), S("b")>>)>>), y>>),
                L(<<Fn(L(<<S("f")>>), <<L(<<S("f"), y>>)>>), Fn(S("a"), <<x>>)>>) }
Expressions == UNION { Both(x, y) : x \in Inner, y \in Inner }
               \union { Form("car", <<x>>) : x \in Inner }

InContext(x) == L(<<Fn(L(<<S("a"), S("l")>>), <<Listing(<<x, S("a"), S("g")>>)>>),
                    N(1), Q(L(<<N(8), N(9)>>))>>)
InTail(x) == L(<<Fn(L(<<S("a"), S("l")>>), <<x>>), N(1), Q(L(<<N(8), N(9)>>))>>)
Controlled == { InContext(x) : x \in Expressions } \union { InTail(x) : x \in Expressions }

-----------------------------------------------------------------------------
(* Templates                                                                  *)

U(x) == Form("unquote", <<x>>)
Elements == { N(1), U(S("a")), Form("unquote-splicing", <<S("l")>>),
              L(<<N(2), U(S("a"))>>), L(<<Form("unquote-splicing", <<S("l")>>)>>) }
Templates == { Dotted(xs, t) : xs \in UNION { [1..n -> Elements] : n \in 1..2 },
                               t \in {Nil, N(3), U(S("l"))} }
             \union { S("q"), U(S("a")), Nil }
Templated == { L(<<Fn(L(<<S("a"), S("l")>>), <<Form("quasiquote", <<t>>)>>), N(1), Q(l)>>) :
                 t \in Templates, l \in {Nil, L(<<N(8), N(9)>>)} }

-----------------------------------------------------------------------------
(* Arithmetic, functions of functions, closures that outlive their call, and *)
(* the errors of calls.                                                      *)

Counter == Fn(L(<<S("n")>>), <<Fn(L(<<S("d")>>),
                               <<Form("assign", <<S("n"), Form("+", <<S("n"), S("d")>>)>>)>>)>>)
Others ==
    ({ Form(f, xs) : f \in {"+", "-", "*"},
                    xs \in { <<>>, <<N(3)>>, <<N(3), N(4)>>, <<N(9), N(2), N(4)>> } }
      \ { Form("-", <<>>) })
    \union
    { Let("c", L(<<Counter, N(0)>>), <<L(<<S("c"), N(2)>>), L(<<S("c"), N(3)>>)>>),
      Let("c", L(<<Counter, N(0)>>),
          <<Listing(<<L(<<S("c"), N(2)>>), L(<<L(<<Counter, N(5)>>), N(1)>>),
                      L(<<S("c"), N(3)>>)>>)>>),
      L(<<Form("compose", <<S("car"), S("cdr")>>), Q(L(<<N(1), N(2)>>))>>),
      L(<<Form("compose", <<S("no"), S("no"), S("car")>>), Q(L(<<N(1), N(2)>>))>>),
      L(<<Form("complement", <<S("no")>>), N(3)>>),
      Form("apply", <<Fn(S("r"), <<S("r")>>), N(1), Q(L(<<N(2), N(3)>>))>>),
      Form("apply", <<Fn(L(<<S("a"), O("b", N(4))>>), <<Form("cons", <<S("a"), S("b")>>)>>),
                      Q(L(<<N(2)>>))>>),
      Listing(<<Form("apply", <<Fn(L(<<S("a")>>), <<S("a")>>), Q(L(<<N(2)>>))>>), N(1)>>),
      L(<<Fn(Nil, <<N(1)>>), N(2)>>), L(<<Fn(Nil, <<>>)>>), S("unknown"),
      L(<<N(1), N(2)>>), Form("car", <<N(1)>>), Form("+", <<N(1), Nil>>),
      Let("f", Fn(L(<<S("f"), S("n")>>),
                  <<Form("if", <<S("n"), L(<<S("f"), S("f"), Form("cdr", <<S("n")>>)>>),
                                 N(0)>>)>>),
          <<Listing(<<L(<<S("f"), S("f"), Q(L(<<N(1), N(1), N(1)>>))>>), N(6)>>)>>) }

-----------------------------------------------------------------------------
(* Arithmetic around the largest fixnum, 31 here.                            *)

Exact == { N(n) : n \in {-31, -7, -1, 0, 1, 2, 5, 6, 31} } \union { MakeBignum(n) : n \in {-40, 32} }
Rationals == { Ratio("rational", p, 6) : p \in {-9, 3, 10} }
Flonums == { Ratio("flonum", p, 2) : p \in {-4, 5, 7} }
Numerals == Exact \union Rationals \union Flonums

\* Left out: a quotient of fixnums by a negative one that is not exact
\* (mpq_set_si), and idiv with a negative fixnum, which rounds otherwise
\* than idiv with a negative bignum.
Calculations ==
    { Form(f, <<x, y>>) : f \in {"+", "-", "*"}, x \in Numerals, y \in Numerals }
    \union { Form("/", <<x, y>>) : x \in Numerals, y \in { n \in Numerals : n.num >= 0 \/ n.tag # "fixnum" } }
    \union { Form("-", <<x>>) : x \in Numerals }
    \union { Form(f, <<x, y, z>>) : f \in {"+", "*"}, x \in Flonums \union Rationals \union {N(31)},
                                   y \in Exact, z \in {N(31), N(-31), N(6)} }
    \union { Form("idiv", <<x, y>>) : x \in { n \in Exact : n.num >= 0 \/ n.tag # "fixnum" },
                                     y \in { n \in Exact : n.num >= 0 \/ n.tag # "fixnum" } }
    \union { Form("mod", <<x, y>>) : x \in Exact, y \in Exact }
    \union { Form("coerce", <<x, Q(S("int"))>>) :
               x \in { n \in Numerals : n.num >= 0 \/ n.den = 1 }
                    \union { Ratio("rational", p, 4) : p \in { n \in 1..15 : n % 4 # 0 } }
                    \union { Ratio("flonum", p, 4) : p \in 1..15 } }

-----------------------------------------------------------------------------
(* Data of other kinds.                                                       *)

Literals == { String(<<>>), String(<<"a", "\"", "\n", "b">>), String(<<"\\", "\\">>),
              String(<<"1", "\t", "(">>), Char("a"), Char(" "), Char("\n"), Char("("), Char("7"),
              Char("null"), S("-"), S("..."), N(1) }
Quoted == { Q(x) : x \in Literals \union { Pair(x, y) : x \in Literals, y \in Literals }
                         \union { L(<<x, y>>) : x \in Literals, y \in Literals } }
          \union { L(<<Fn(L(<<S("_")>>), <<L(<<S("cons"), S("_"), x>>)>>), x>>) : x \in Literals \ {S("-"), S("...")} }

AllPrograms == Calculations \union FixedCalls \union RestCalls \union Controlled
               \union Templated \union Others \union Quoted
=============================================================================
