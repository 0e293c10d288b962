------------------------------- MODULE Meaning -------------------------------
(***************************************************************************)
(* What a program means, without a compiler: expressions are evaluated as  *)
(* they stand, in environments of names.  A frame maps the names a         *)
(* function has bound to their values, in a store st of frames and global  *)
(* names; evaluation returns a value and the store it leaves.  A program   *)
(* in error has st.err set, and what follows in it is not evaluated.       *)
(***************************************************************************)
EXTENDS Sexpr, TLC

Result(v, st) == [val |-> v, st |-> st]
Erroneous(st) == Result(Nil, [st EXCEPT !.err = TRUE])

\* The frame of the environment that has the name, or 0.
Holder(name, env, st) ==
    LET has == {k \in DOMAIN env : name \in DOMAIN st.frames[env[k]]}
    IN  IF has = {} THEN 0 ELSE env[CHOOSE k \in has : \A j \in has : k <= j]

LookUp(name, env, st) ==
    LET f == Holder(name, env, st)
    IN  IF f # 0 THEN Result(st.frames[f][name], st)
        ELSE IF name \in DOMAIN st.glob THEN Result(st.glob[name], st)
        ELSE Erroneous(st)

SetName(name, v, env, st) ==
    LET f == Holder(name, env, st)
    IN  IF f # 0 THEN [st EXCEPT !.frames[f][name] = v]
        ELSE [st EXCEPT !.glob = (name :> v) @@ @]

\* The name is added to the innermost frame.
Define(name, v, env, st) == [st EXCEPT !.frames[env[1]] = (name :> v) @@ @]

-----------------------------------------------------------------------------
(* Numbers, exactly. *)

\* The number p/q: a flonum when any argument is one, and otherwise an
\* integer when it is one and a rational when it is not.
Narrow(p, q, xs) ==
    LET r == Ratio("rational", p, q)
    IN  [r EXCEPT !.tag = CASE \E i \in DOMAIN xs : xs[i].tag = "flonum" -> "flonum"
                            [] (\A i \in DOMAIN xs : xs[i].tag # "flonum") /\ r.den = 1 ->
                                 IF IsFixnum(r.num) THEN "fixnum" ELSE "bignum"
                            [] OTHER -> "rational"]

\* The integer nearest to p/q, the even one of two as near.
Nearest(p, q) == CHOOSE n \in (p \div q) .. (p \div q) + 1 :
                    LET d == 2 * Abs(p - n * q)
                    IN  d < q \/ (d = q /\ n % 2 = 0)

\* The fraction that f makes of the numbers, as a pair; q = 0 for none.
RECURSIVE Fraction(_, _)
Fraction(f, xs) ==
    IF Len(xs) = 1 THEN <<xs[1].num, xs[1].den>>
    ELSE LET l == Fraction(f, Front(xs))
             n == Last(xs).num
             d == Last(xs).den
         IN  CASE f = "+" -> <<l[1] * d + n * l[2], l[2] * d>>
               [] f = "-" -> <<l[1] * d - n * l[2], l[2] * d>>
               [] f = "*" -> <<l[1] * n, l[2] * d>>
               [] f = "/" -> <<l[1] * d, l[2] * n>>

Unit(f) == IF f \in {"+", "-"} THEN MakeFixnum(0) ELSE MakeFixnum(1)

Arith(f, xs, st) ==
    LET r == Fraction(f, IF Len(xs) < 2 THEN <<Unit(f)>> \o xs ELSE xs)
    IN  IF r[2] = 0 THEN Erroneous(st) ELSE Result(Narrow(r[1], r[2], xs), st)

\* Division of integers with a remainder, and rounding.
WholeNumbers(f, x, y, st) ==
    CASE f = "coerce" -> Result(Narrow(Nearest(x.num, x.den), 1, <<>>), st)
      [] f # "coerce" /\ (x.den # 1 \/ y.num = 0) -> Erroneous(st)
      [] f = "idiv" /\ y.num # 0 -> Result(Narrow(Floored(x.num, y.num), 1, <<>>), st)
      [] OTHER -> Result(Narrow(x.num - y.num * Floored(x.num, y.num), 1, <<>>), st)

-----------------------------------------------------------------------------

RECURSIVE Eval(_, _, _), EvalAll(_, _, _), Body(_, _, _), EvalIf(_, _, _),
          EvalAssign(_, _, _), Call(_, _, _), Fill(_, _, _), Match(_, _, _, _),
          Parameters(_, _, _, _), EvalWithin(_, _, _, _)

\* The values of the expressions, from the left.
EvalAll(xs, env, st) ==
    IF xs = <<>> \/ st.err THEN [vals |-> <<>>, st |-> st]
    ELSE LET first == Eval(Head(xs), env, st)
             rest  == EvalAll(Tail(xs), env, first.st)
         IN  [vals |-> <<first.val>> \o rest.vals, st |-> rest.st]

\* The value of the last expression; nil when there is none.
Body(xs, env, st) ==
    CASE xs = <<>> -> Result(Nil, st)
      [] Len(xs) = 1 -> Eval(xs[1], env, st)
      [] OTHER -> Body(Tail(xs), env, Eval(Head(xs), env, st).st)

\* A test and what follows when it holds, again and again, and what
\* follows when none holds.
EvalIf(xs, env, st) ==
    IF Len(xs) < 2 THEN Body(xs, env, st)
    ELSE LET test == Eval(xs[1], env, st)
         IN  IF IsNil(test.val) THEN EvalIf(SubSeq(xs, 3, Len(xs)), env, test.st)
             ELSE Eval(xs[2], env, test.st)

EvalAssign(xs, env, st) ==
    LET v == Eval(xs[2], env, st)
        r == Result(v.val, SetName(xs[1].sym, v.val, env, v.st))
    IN  IF v.st.err THEN v
        ELSE IF Len(xs) = 2 THEN r
        ELSE EvalAssign(SubSeq(xs, 3, Len(xs)), env, r.st)

-----------------------------------------------------------------------------
(* Functions.  An argument that was not given is Unbound.                    *)

\* The pattern x takes the value v apart.  In the car of a pattern, and as
\* a parameter, (o name default) gives the name its default for no value.
Match(x, v, env, st) ==
    CASE st.err \/ IsNil(x) -> st
      [] ~ st.err /\ IsSym(x) -> Define(x.sym, IF v = Unbound THEN Nil ELSE v, env, st)
      [] ~ st.err /\ IsForm(x, "o") ->
           LET given == IF v # Unbound THEN Result(v, st)
                        ELSE Eval(IF IsNil(x.cdr.cdr) THEN Nil ELSE x.cdr.cdr.car, env, st)
           IN  IF given.st.err THEN given.st
               ELSE Define(Cadr(x).sym, given.val, env, given.st)
      [] OTHER ->
           IF v = Unbound \/ IsNil(v)
           THEN Match(x.cdr, Unbound, env, Match(x.car, Unbound, env, st))
           ELSE IF IsCons(v) THEN Match(x.cdr, v.cdr, env, Match(x.car, v.car, env, st))
           ELSE Erroneous(st).st

IsOpt(x) == IsForm(x, "o")

\* The parameters take the arguments from the left; a name in the last cdr
\* takes those that are left.
Parameters(x, vals, env, st) ==
    CASE IsNil(x) -> IF vals = <<>> THEN st ELSE Erroneous(st).st
      [] IsSym(x) -> Define(x.sym, MakeList(vals), env, st)
      [] IsCons(x) /\ vals # <<>> ->
           Parameters(x.cdr, Tail(vals), env, Match(x.car, Head(vals), env, st))
      [] IsCons(x) /\ vals = <<>> /\ IsOpt(x.car) ->
           Parameters(x.cdr, vals, env, Match(x.car, Unbound, env, st))
      [] OTHER -> Erroneous(st).st

\* f applied to the values.  A function of no parameters takes any.
Call(f, vals, st) ==
    CASE st.err -> Erroneous(st)
      [] ~ st.err /\ f.tag = "fun" ->
           LET new == <<Len(st.frames) + 1>> \o f.env
               in  == [st EXCEPT !.frames = Append(@, [n \in {} |-> Nil])]
               set == Parameters(f.params, vals, new, in)
           IN  IF IsNil(f.params) THEN Body(f.body, f.env, st)
               ELSE IF set.err THEN Erroneous(set)
               ELSE Body(f.body, new, set)
      [] ~ st.err /\ f.tag = "builtin" ->
           CASE f.fn = "no" -> Result(IF IsNil(vals[1]) THEN True ELSE Nil, st)
             [] f.fn = "apply" -> Call(vals[1], Tail(Front(vals)) \o Members(Last(vals)), st)
             [] OTHER -> WholeNumbers(f.fn, vals[1], vals[2], st)
      [] OTHER -> Erroneous(st)

-----------------------------------------------------------------------------

\* A template: unquoted expressions give way to their values, and a spliced
\* one to the members of its value.
Fill(x, env, st) ==
    CASE ~ IsCons(x) -> Result(x, st)
      [] IsForm(x, "unquote") -> Eval(Cadr(x), env, st)
      [] IsCons(x) /\ IsForm(x.car, "unquote-splicing") ->
           LET spliced == Eval(Cadr(x.car), env, st)
               rest    == Fill(x.cdr, env, spliced.st)
           IN  Result(Dotted(Members(spliced.val), rest.val), rest.st)
      [] OTHER -> LET first == Fill(x.car, env, st)
                      rest  == Fill(x.cdr, env, first.st)
                  IN  Result(Pair(first.val, rest.val), rest.st)


\* The functions the machine has instructions for.
Primitives == {"cons", "car", "cdr", "+", "*", "-", "/"}
Primitive(f, vals, st) ==
    CASE st.err -> Erroneous(st)
      [] ~ st.err /\ f = "cons" -> Result(Pair(vals[1], vals[2]), st)
      [] ~ st.err /\ f \in {"car", "cdr"} ->
           CASE IsNil(vals[1]) -> Result(Nil, st)
             [] IsCons(vals[1]) ->
                  Result(IF f = "car" THEN vals[1].car ELSE vals[1].cdr, st)
             [] OTHER -> Erroneous(st)
      [] OTHER -> IF \A i \in DOMAIN vals : IsNum(vals[i])
                  THEN Arith(f, vals, st)
                  ELSE Erroneous(st)

\* (compose f g h) applies h to the arguments, then g, then f to one.
EvalWithin(fs, xs, env, st) ==
    LET args == IF Len(fs) = 1 THEN EvalAll(xs, env, st)
                ELSE LET r == EvalWithin(Tail(fs), xs, env, st)
                     IN  [vals |-> <<r.val>>, st |-> r.st]
    IN  IF IsSym(fs[1]) /\ fs[1].sym \in Primitives
        THEN Primitive(fs[1].sym, args.vals, args.st)
        ELSE LET f == Eval(fs[1], env, args.st)
             IN  IF args.st.err THEN Erroneous(args.st) ELSE Call(f.val, args.vals, f.st)

Eval(x, env, st) ==
    IF st.err THEN Erroneous(st)
    ELSE IF IsSym(x) THEN LookUp(x.sym, env, st)
    ELSE IF ~ IsCons(x) THEN Result(x, st)
    ELSE LET f  == x.car
             xs == Members(x.cdr)
         IN  CASE Is(f, "if") -> EvalIf(xs, env, st)
               [] Is(f, "quote") -> Result(xs[1], st)
               [] Is(f, "assign") -> EvalAssign(xs, env, st)
               [] Is(f, "fn") -> Result([tag |-> "fun", params |-> xs[1],
                                         body |-> Tail(xs), env |-> env], st)
               [] Is(f, "quasiquote") -> Fill(xs[1], env, st)
               [] IsForm(f, "compose") -> EvalWithin(Members(f.cdr), xs, env, st)
               [] IsForm(f, "complement") ->
                    LET r == EvalWithin(<<Cadr(f)>>, xs, env, st)
                    IN  Call(Builtin("no"), <<r.val>>, r.st)
               [] OTHER -> EvalWithin(<<f>>, xs, env, st)

\* The meaning of a program in the globals.
Meaning(x, glob) == Eval(x, <<>>, [frames |-> <<>>, glob |-> glob, err |-> FALSE])
=============================================================================
