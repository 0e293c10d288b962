------------------------------- MODULE Compiler ------------------------------
(***************************************************************************)
(* The compiler (src/src/compiler.c) and the code generator                *)
(* (src/src/codegen.c): an expression becomes a sequence of words, where   *)
(* an instruction is followed by its operands and jumps are counted in     *)
(* words from the instruction that jumps.  A compilation context holds the *)
(* words and literals emitted so far; the functions of the C code are      *)
(* operators from a context to the next.                                   *)
(*                                                                         *)
(* A compile-time environment is a sequence of frames, the innermost       *)
(* first; a frame maps the names it has to the places in the run-time      *)
(* environment.  Special syntax (ssyntax.c) is expanded and macros other   *)
(* than quasiquote are applied before the programs considered here.        *)
(***************************************************************************)
EXTENDS Sexpr, TLC

NewContext == [code |-> <<>>, lits |-> <<>>, err |-> ""]

-----------------------------------------------------------------------------
(* codegen.c *)

Here(ctx) == Len(ctx.code)                      \* CCTX_VCPTR
Emit(ctx, words) == [ctx EXCEPT !.code = @ \o words]

\* The operand of the jump at the address at is patched to lead to dest.
SlipJmpOffset(ctx, at, dest) == [ctx EXCEPT !.code[at + 2] = dest - at - 2]
JmpOffset(ctx, at, dest) == [ctx EXCEPT !.code[at + 2] = dest - at]
Lands(ctx, at) == JmpOffset(ctx, at, Here(ctx))

Literal(ctx, lit) == [ctx EXCEPT !.lits = Append(@, lit)]
ToCode(ctx) == [tag |-> "code", code |-> ctx.code, lits |-> ctx.lits]

Fail(ctx, why) == IF ctx.err = "" THEN [ctx EXCEPT !.err = why] ELSE ctx

-----------------------------------------------------------------------------
(* Atoms *)

\* A tail position ends with a return.
Continue(ctx, cont) == IF cont THEN Emit(ctx, <<"ret">>) ELSE ctx

\* A literal is looked for with is, which tells any two pieces of code apart.
EmitLiteral(ctx, op, lit) ==
    LET same == {i \in DOMAIN ctx.lits :
                   ctx.lits[i].tag = lit.tag /\ lit.tag # "code" /\ lit.tag # "cons"
                   /\ ctx.lits[i] = lit}
    IN  IF same # {} THEN Emit(ctx, <<op, (CHOOSE i \in same : TRUE) - 1>>)
        ELSE Emit(Literal(ctx, lit), <<op, Len(ctx.lits)>>)

CompileLiteral(lit, ctx, cont) ==
    Continue(CASE IsNil(lit) -> Emit(ctx, <<"nil">>)
               [] lit.tag = "t" -> Emit(ctx, <<"true">>)
               [] lit.tag = "fixnum" -> Emit(ctx, <<"ldi", lit.num>>)
               [] OTHER -> EmitLiteral(ctx, "ldl", lit),
             cont)

\* The number of the innermost frame that has the name; 0 is the first.
SlipFrameOf(var, env) ==
    LET has == {k \in DOMAIN env : var \in DOMAIN env[k]}
    IN  IF has = {} THEN -1 ELSE (CHOOSE k \in has : \A j \in has : j <= k) - 1
FrameOf(var, env) ==
    LET has == {k \in DOMAIN env : var \in DOMAIN env[k]}
    IN  IF has = {} THEN -1 ELSE (CHOOSE k \in has : \A j \in has : k <= j) - 1
Place(var, env) == env[FrameOf(var, env) + 1][var]

CompileIdent(var, ctx, env, cont) ==
    LET level == FrameOf(var, env)
    IN  Continue(CASE level = -1 -> EmitLiteral(ctx, "ldg", Sym(var))
                   [] level = 0 -> Emit(ctx, <<"lde0", Place(var, env)>>)
                   [] level > 0 -> Emit(ctx, <<"lde", level, Place(var, env)>>),
                 cont)

\* The value register is stored under the name.
Store(ctx, env, var) ==
    LET level == FrameOf(var, env)
    IN  CASE level = -1 -> EmitLiteral(ctx, "stg", Sym(var))
          [] level = 0 -> Emit(ctx, <<"ste0", Place(var, env)>>)
          [] level > 0 -> Emit(ctx, <<"ste", level, Place(var, env)>>)

-----------------------------------------------------------------------------
(* quasiquote: what qqexpand makes of a template.  Templates within          *)
(* templates are left out.                                                   *)

Quote(x) == Form("quote", <<x>>)
QAppend(x, y) == Form("append", <<x, y>>)

RECURSIVE Splicing(_)
Splicing(x) == \/ IsForm(x, "unquote-splicing")
               \/ IsForm(x, "unquote") /\ Splicing(Cadr(x))

QCons(x, y) == Form(IF Splicing(x) THEN "dlist" ELSE "cons", <<x, y>>)
QList(x) == QCons(x, Nil)

\* The forms of the list joined from the right.
RECURSIVE QAppends(_)
QAppends(xs) == CASE Len(xs) = 1 -> QAppend(xs[1], Nil)
                  [] Len(xs) = 2 -> QAppend(xs[1], xs[2])
                  [] OTHER -> QAppend(xs[1], QAppends(Tail(xs)))

RECURSIVE QExpand(_), QExpandList(_)
QTransform(x) ==
    IF IsForm(x, "unquote") THEN QList(Cadr(x))
    ELSE IF IsForm(x, "unquote-splicing") THEN Cadr(x)
    ELSE QList(QExpand(x))

\* An unquote in the middle of a list is a dotted tail: (a . (unquote b)).
QExpandList(x) ==
    IF ~ IsCons(x) THEN <<Quote(x)>>
    ELSE IF IsForm(x, "unquote") THEN <<Cadr(x)>>
    ELSE <<QTransform(x.car)>> \o QExpandList(x.cdr)

QExpand(x) ==
    IF ~ IsCons(x) THEN Quote(x)
    ELSE IF IsForm(x, "unquote") THEN Cadr(x)
    ELSE QAppends(QExpandList(x))

-----------------------------------------------------------------------------

RECURSIVE Compile(_, _, _, _), CompileIf(_, _, _, _), CompileArgs(_, _, _),
          CompileAssign(_, _, _), Destructure(_, _), Pushes(_, _, _), Folded(_, _, _, _),
          Statements(_, _, _)

\* Each pushed in turn.
Pushes(xs, ctx, env) ==
    IF xs = <<>> THEN ctx
    ELSE Pushes(Tail(xs), Emit(Compile(Head(xs), ctx, env, FALSE), <<"push">>), env)

CompileIf(args, ctx, env, cont) ==
    CASE IsNil(args) -> Continue(Emit(ctx, <<"nil">>), cont)
      [] IsCons(args) /\ IsNil(args.cdr) -> Compile(args.car, ctx, env, cont)
      [] OTHER ->
           LET test == Compile(args.car, ctx, env, FALSE)
               then == Compile(Cadr(args), Emit(test, <<"jf", 0>>), env, FALSE)
               jump == Emit(then, <<"jmp", 0>>)
               else == CompileIf(args.cdr.cdr, Lands(jump, Here(test)), env, cont)
           IN  Continue(Lands(else, Here(then)), cont)

CompileAssign(xs, ctx, env) ==
    IF xs = <<>> THEN ctx
    ELSE CompileAssign(SubSeq(xs, 3, Len(xs)),
           IF IsNil(xs[1]) \/ xs[1] = True
           THEN Fail(ctx, "can't rebind")
           ELSE Store(Compile(xs[2], ctx, env, FALSE), env, xs[1].sym), env)

-----------------------------------------------------------------------------
(* Parameters.  b is [ctx, env, idx]: the context of the function, its       *)
(* environment, and the next free place of the new frame, env[1].            *)

Bind(b, name) == [b EXCEPT !.env[1] = (name :> b.idx) @@ @, !.idx = @ + 1]
Emits(b, words) == [b EXCEPT !.ctx = Emit(@, words)]

\* (o name) or (o name default)
IsOptional(x) == IsForm(x, "o")
Default(x) == IF IsNil(x.cdr.cdr) THEN Nil ELSE x.cdr.cdr.car

\* The name takes the value register, or what the code of the default
\* leaves there when the register is unbound.
BindOr(b, name, Missing(_)) ==
    LET at == Here(b.ctx)
        c  == Missing(Emit(b.ctx, <<"jbnd", 0>>))
    IN  Bind([b EXCEPT !.ctx = Emit(Lands(c, at), <<"ste0", b.idx>>)], name)

\* The parameter x is bound to the value register: a name, an optional
\* parameter where one may be (opt), or a pair to be taken apart.
Destructure(b, x) ==
    LET InCar(e, y) ==
            IF IsOptional(y) /\ IsCons(y.cdr) /\ ~ IsNil(Cadr(y))
            THEN IF ~ IsSym(Cadr(y))
                 THEN [e EXCEPT !.ctx = Fail(@, "not an identifier")]
                 ELSE BindOr(e, Cadr(y).sym,
                             LAMBDA ctx : Compile(Default(y), ctx, e.env, FALSE))
            ELSE Destructure(e, y)
    IN  CASE IsSym(x) -> BindOr(b, x.sym, LAMBDA ctx : Emit(ctx, <<"nil">>))
          [] ~ IsSym(x) /\ ~ IsCons(x) -> [b EXCEPT !.ctx = Fail(@, "invalid fn arg")]
          [] IsCons(x) /\ ~ IsNil(x.car) /\ ~ IsNil(x.cdr) ->
               Destructure(Emits(InCar(Emits(b, <<"push", "dcar">>), x.car),
                                 <<"pop", "dcdr">>), x.cdr)
          [] IsCons(x) /\ ~ IsNil(x.car) /\ IsNil(x.cdr) ->
               InCar(Emits(b, <<"dcar">>), x.car)
          [] IsCons(x) /\ IsNil(x.car) /\ ~ IsNil(x.cdr) ->
               Destructure(Emits(b, <<"dcdr">>), x.cdr)
          [] OTHER -> b

\* One parameter of the list.  a adds to b the counts of the regular and
\* the optional ones, and the places of those to be taken apart, last first.
Parameter(a, x) ==
    CASE IsNil(x) -> [a EXCEPT !.idx = @ + 1, !.reg = @ + 1]
      [] IsSym(x) ->
           IF a.opt > 0 THEN [a EXCEPT !.ctx = Fail(@, "non-optional arg after optional")]
           ELSE [Bind(a, x.sym) EXCEPT !.reg = @ + 1]
      [] IsOptional(x) ->
           LET load == Emit(a.ctx, <<"lde0", a.idx>>)
               set  == Emit(Compile(Default(x), Emit(load, <<"jbnd", 0>>), a.env, FALSE),
                            <<"ste0", a.idx>>)
           IN  [Bind([a EXCEPT !.ctx = Lands(set, Here(load))], Cadr(x).sym)
                  EXCEPT !.opt = @ + 1]
      [] IsCons(x) /\ ~ IsOptional(x) ->
           [a EXCEPT !.dsb = <<[arg |-> x, at |-> a.idx]>> \o @,
                     !.idx = @ + 1, !.reg = @ + 1]
      [] OTHER -> [a EXCEPT !.ctx = Fail(@, "invalid fn arg")]

\* The operands of the env instruction count the places that arguments,
\* taken-apart names and optional arguments have in the new environment.
CompileArgs(args, ctx, env) ==
    CASE IsNil(args) -> [ctx |-> ctx, env |-> env]
      [] IsSym(args) -> [ctx |-> Emit(ctx, <<"envr", 0, 0, 0>>),
                         env |-> <<args.sym :> 0>> \o env]
      [] IsCons(args) ->
           LET at    == Here(ctx)
               start == [ctx |-> Emit(ctx, <<"env", 0, 0, 0>>),
                         env |-> <<[n \in {} |-> 0]>> \o env,
                         idx |-> 0, reg |-> 0, opt |-> 0, dsb |-> <<>>]
               fixed == FoldLeft(Parameter, start, Members(args))
               all   == IF IsSym(LastCdr(args)) THEN Bind(fixed, LastCdr(args).sym)
                        ELSE fixed
               taken == FoldLeft(LAMBDA b, d :
                                   Destructure(Emits(b, <<"lde0", d.at>>), d.arg),
                                 all, all.dsb)
               op    == IF IsSym(LastCdr(args)) THEN "envr" ELSE "env"
           IN  [ctx |-> [taken.ctx EXCEPT !.code[at + 1] = op,
                                          !.code[at + 2] = all.reg,
                                          !.code[at + 3] = taken.idx - all.idx,
                                          !.code[at + 4] = all.opt],
                env |-> taken.env]
      [] OTHER -> [ctx |-> Fail(ctx, "invalid fn arg"), env |-> env]

\* The last statement of a body is in tail position.
Statements(xs, ctx, env) ==
    CASE xs = <<>> -> ctx
      [] xs # <<>> -> Statements(Tail(xs), Compile(Head(xs), ctx, env, Len(xs) = 1), env)

CompileFn(expr, ctx, env, cont) ==
    LET args == CompileArgs(expr.car, NewContext, env)
        body == IF IsNil(expr.cdr) THEN Emit(args.ctx, <<"nil", "ret">>)
                ELSE Statements(Members(expr.cdr), args.ctx, args.env)
        clos == Emit(EmitLiteral(ctx, "ldl", ToCode(body)), <<"cls">>)
    IN  Continue(IF body.err = "" THEN clos ELSE Fail(ctx, body.err), cont)

-----------------------------------------------------------------------------
(* Calls *)

\* The operator applied from the left to the base and each of xs.
Folded(op, xs, ctx, env) ==
    IF xs = <<>> THEN ctx
    ELSE Folded(op, Tail(xs),
                Emit(Compile(Head(xs), Emit(ctx, <<"push">>), env, FALSE), <<op>>), env)

Inlines == {"cons", "car", "cdr", "+", "*", "-", "/"}
Arity(f) == IF f = "cons" THEN 2 ELSE 1

CompileInline(f, xs, ctx, env, cont) ==
    LET FoldFrom(base, ys) ==
            Continue(Folded(f, ys, Compile(base, ctx, env, FALSE), env), cont)
    IN  CASE f \in {"cons", "car", "cdr"} ->
               IF Len(xs) # Arity(f) THEN Fail(ctx, "inline procedure")
               ELSE LET first == Pushes(Front(xs), ctx, env)
                    IN  Continue(Emit(Compile(Last(xs), first, env, FALSE), <<f>>), cont)
          [] f = "*" -> FoldFrom(Num(1), xs)
          [] f = "+" /\ Len(xs) = 0 -> Compile(Num(0), ctx, env, cont)
          [] f = "+" /\ Len(xs) = 1 -> Compile(xs[1], ctx, env, cont)
          [] f = "-" /\ Len(xs) = 0 -> Fail(ctx, "operator requires at least one argument")
          [] f = "-" /\ Len(xs) = 1 -> FoldFrom(Num(0), xs)
          [] OTHER -> FoldFrom(xs[1], Tail(xs))

\* A call that is not in tail position makes a continuation first.
CompileApply(f, xs, ctx, env, cont) ==
    LET saved  == IF cont THEN ctx ELSE Emit(ctx, <<"cont", 0>>)
        pushed == Pushes(xs, saved, env)
        fn     == Compile(f, pushed, env, FALSE)
        n      == Len(xs)
    IN  IF cont THEN Emit(fn, <<"menv", n, "apply", n>>)
        ELSE Lands(Emit(fn, <<"apply", n>>), Here(ctx))

\* ((compose f g) . xs) is (f (g . xs)).
RECURSIVE Composed(_, _)
Composed(fs, xs) ==
    IF Len(fs) = 1 THEN Pair(fs[1], xs)
    ELSE MakeList(<<fs[1], Composed(Tail(fs), xs)>>)

CompileList(x, ctx, env, cont) ==
    LET xs == Members(x.cdr)
        f  == x.car
    IN  CASE Is(f, "if") -> CompileIf(x.cdr, ctx, env, cont)
          [] Is(f, "fn") -> CompileFn(x.cdr, ctx, env, cont)
          [] Is(f, "quote") -> CompileLiteral(xs[1], ctx, cont)
          [] Is(f, "assign") -> Continue(CompileAssign(xs, ctx, env), cont)
          [] IsSym(f) /\ f.sym \in Inlines -> CompileInline(f.sym, xs, ctx, env, cont)
          [] IsForm(f, "compose") ->
               Compile(Composed(Members(f.cdr), x.cdr), ctx, env, cont)
          [] IsForm(f, "complement") ->
               Compile(Form("no", <<Pair(Cadr(f), x.cdr)>>), ctx, env, cont)
          [] Is(f, "quasiquote") -> Compile(QExpand(xs[1]), ctx, env, cont)
          [] OTHER -> CompileApply(f, xs, ctx, env, cont)

Compile(x, ctx, env, cont) ==
    CASE ctx.err # "" -> ctx
      [] x.tag \in {"nil", "t", "string", "char"} \/ IsNum(x) -> CompileLiteral(x, ctx, cont)
      [] IsSym(x) -> CompileIdent(x.sym, ctx, env, cont)
      [] IsCons(x) -> CompileList(x, ctx, env, cont)

\* arc_eval: the expression alone, in tail position, in no environment.
CompileProgram(x) == Compile(x, NewContext, <<>>, TRUE)
=============================================================================
