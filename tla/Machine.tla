------------------------------- MODULE Machine -------------------------------
(***************************************************************************)
(* The virtual machine (src/src/vmengine.c) running what the compiler      *)
(* makes of a program: the registers of a thread, its stack of operands,   *)
(* its continuations and its environments.  Module Stack says where        *)
(* environments and continuations live; here an environment is a place of  *)
(* its own, and a continuation holds what its instruction saved.           *)
(*                                                                         *)
(* Functions a program applies that are not closures are given by what     *)
(* they return: append and dlist (cons.c), apply, idiv, mod and coerce     *)
(* (arith.c), and no, a function of the library arc.arc.                   *)
(***************************************************************************)
EXTENDS Compiler

CONSTANTS Programs,         \* the programs that may be run
          InitGlobals       \* what genv binds: a function from names to values

VARIABLES program, fn, ip, val, stack, env, argc, conts, envs, globals,
          phase             \* "run", "done" or "error"

vars == <<program, fn, ip, val, stack, env, argc, conts, envs, globals, phase>>

\* arc_eval: a closure of the code in no environment, applied to nothing.
\* Environment 0 is none.
Init ==
    /\ program \in Programs
    /\ \E ctx \in {CompileProgram(program)} :
           /\ fn = [tag |-> "clos", code |-> ToCode(ctx), env |-> 0]
           /\ phase = IF ctx.err = "" THEN "run" ELSE "error"
    /\ ip = 0 /\ val = Nil /\ stack = <<>> /\ env = 0 /\ argc = 0
    /\ conts = <<>> /\ envs = <<>> /\ globals = InitGlobals

-----------------------------------------------------------------------------

Word(k) == fn.code.code[ip + 1 + k]
Lit(k) == fn.code.lits[Word(k) + 1]

At(ops) == phase = "run" /\ Word(0) \in ops
Advance(n) == ip' = ip + n
Error == phase' = "error" /\ UNCHANGED <<ip, val, stack, env, argc, conts, envs, globals, fn>>

\* The environment level frames out of the current one.
RECURSIVE Outer(_, _)
Outer(e, level) == IF level = 0 THEN e ELSE Outer(envs[e].next, level - 1)

PutEnv(level, idx, v) ==
    envs' = [envs EXCEPT ![Outer(env, level)].slots[idx + 1] = v]

Top == Last(stack)
LastOf(n) == SubSeq(stack, Len(stack) - n + 1, Len(stack))
Below(n) == SubSeq(stack, 1, Len(stack) - n)

-----------------------------------------------------------------------------
(* The instructions *)

Load ==
    /\ At({"nil", "true", "ldi", "ldl", "lde", "lde0"})
    /\ val' = CASE Word(0) = "nil" -> Nil
                [] Word(0) = "true" -> True
                [] Word(0) = "ldi" -> Num(Word(1))
                [] Word(0) = "ldl" -> Lit(1)
                [] Word(0) = "lde0" -> envs[env].slots[Word(1) + 1]
                [] Word(0) = "lde" -> envs[Outer(env, Word(1))].slots[Word(2) + 1]
    /\ Advance(CASE Word(0) \in {"nil", "true"} -> 1
                 [] Word(0) = "lde" -> 3
                 [] OTHER -> 2)
    /\ UNCHANGED <<program, fn, stack, env, argc, conts, envs, globals, phase>>

LoadGlobal ==
    /\ At({"ldg"})
    /\ UNCHANGED program
    /\ IF Lit(1).sym \in DOMAIN globals
       THEN /\ val' = globals[Lit(1).sym]
            /\ Advance(2)
            /\ UNCHANGED <<fn, stack, env, argc, conts, envs, globals, phase>>
       ELSE Error

Save ==
    /\ At({"stg", "ste", "ste0"})
    /\ CASE Word(0) = "stg" -> /\ globals' = (Lit(1).sym :> val) @@ globals
                               /\ UNCHANGED envs
         [] Word(0) = "ste0" -> PutEnv(0, Word(1), val) /\ UNCHANGED globals
         [] Word(0) = "ste" -> PutEnv(Word(1), Word(2), val) /\ UNCHANGED globals
    /\ Advance(IF Word(0) = "ste" THEN 3 ELSE 2)
    /\ UNCHANGED <<program, fn, val, stack, env, argc, conts, phase>>

Push ==
    /\ At({"push"})
    /\ stack' = Append(stack, val)
    /\ Advance(1)
    /\ UNCHANGED <<program, fn, val, env, argc, conts, envs, globals, phase>>

Pop ==
    /\ At({"pop"})
    /\ val' = Top
    /\ stack' = Below(1)
    /\ Advance(1)
    /\ UNCHANGED <<program, fn, env, argc, conts, envs, globals, phase>>

Jump ==
    /\ At({"jmp", "jf", "jbnd"})
    /\ LET taken == CASE Word(0) = "jmp" -> TRUE
                      [] Word(0) = "jf" -> IsNil(val)
                      [] Word(0) = "jbnd" -> val # Unbound
       IN  Advance(IF taken THEN Word(1) ELSE 2)
    /\ UNCHANGED <<program, fn, val, stack, env, argc, conts, envs, globals, phase>>

\* car and cdr of nil are nil; dcar and dcdr say that there is none.
TakeApart ==
    /\ At({"car", "cdr", "dcar", "dcdr"})
    /\ UNCHANGED program
    /\ LET none == IF Word(0) \in {"car", "cdr"} THEN Nil ELSE Unbound
           empty == IsNil(val) \/ (Word(0) \in {"dcar", "dcdr"} /\ val = Unbound)
       IN  IF empty \/ IsCons(val)
           THEN /\ val' = CASE empty -> none
                            [] ~ empty /\ Word(0) \in {"car", "dcar"} -> val.car
                            [] ~ empty /\ Word(0) \in {"cdr", "dcdr"} -> val.cdr
                /\ Advance(1)
                /\ UNCHANGED <<fn, stack, env, argc, conts, envs, globals, phase>>
           ELSE Error

\* With the operand pushed first on the left.
Operate ==
    /\ At({"cons", "+", "-", "*", "/"})
    /\ UNCHANGED program
    /\ LET v == CASE Word(0) = "cons" -> Pair(Top, val)
                  [] Word(0) # "cons" /\ ~ (IsNum(Top) /\ IsNum(val)) -> NotANumber
                  [] Word(0) = "+" -> Add2(Top, val)
                  [] Word(0) = "-" -> Sub2(Top, val)
                  [] Word(0) = "*" -> Mul2(Top, val)
                  [] Word(0) = "/" -> Div2(Top, val)
       IN
       IF v # NotANumber
       THEN /\ val' = v
            /\ stack' = Below(1)
            /\ Advance(1)
            /\ UNCHANGED <<fn, env, argc, conts, envs, globals, phase>>
       ELSE Error

\* env min dsb opt, envr min dsb opt: the arguments on the stack become the
\* first places of a new environment, unbound ones follow.  envr pops those
\* beyond the optional ones into a list it stores after all the others.
MakeEnv ==
    /\ At({"env", "envr"})
    /\ UNCHANGED program
    /\ LET min  == Word(1)
           dsb  == Word(2)
           opt  == Word(3)
           rest == Word(0) = "envr"
           kept == IF argc < min + opt THEN argc ELSE min + opt
           none == [i \in 1..(min + opt - kept + dsb) |-> Unbound]
           args == LastOf(argc)
           more == MakeList(SubSeq(args, kept + 1, argc))
       IN  IF argc < min \/ (~ rest /\ argc > min + opt) THEN Error
           ELSE /\ envs' = Append(envs, [slots |-> SubSeq(args, 1, kept) \o none
                                                   \o (IF rest THEN <<more>> ELSE <<>>),
                                         next |-> env])
                /\ env' = Len(envs')
                /\ stack' = Below(argc)
                /\ Advance(4)
                /\ UNCHANGED <<fn, val, argc, conts, globals, phase>>

MakeCont ==
    /\ At({"cont"})
    /\ conts' = Append(conts, [fn |-> fn, ip |-> ip + Word(1), env |-> env, stack |-> stack])
    /\ stack' = <<>>
    /\ Advance(2)
    /\ UNCHANGED <<program, fn, val, env, argc, envs, globals, phase>>

\* Before a tail call the arguments replace what the function has.
MoveEnv ==
    /\ At({"menv"})
    /\ stack' = LastOf(Word(1))
    /\ argc' = Word(1)
    /\ env' = IF env = 0 THEN 0 ELSE envs[env].next
    /\ Advance(2)
    /\ UNCHANGED <<program, fn, val, conts, envs, globals, phase>>

MakeClosure ==
    /\ At({"cls"})
    /\ val' = [tag |-> "clos", code |-> val, env |-> env]
    /\ Advance(1)
    /\ UNCHANGED <<program, fn, stack, env, argc, conts, envs, globals, phase>>

-----------------------------------------------------------------------------
(* Application and return: the trampoline *)

\* clos_apply; n arguments are on the stack.
Enter(clos, n) ==
    /\ fn' = clos
    /\ ip' = 0
    /\ env' = clos.env
    /\ argc' = n
    /\ UNCHANGED <<val, conts, envs, globals, phase>>

\* apply_return: the last continuation takes the value.
Resume(v) ==
    /\ val' = v
    /\ IF conts = <<>>
       THEN phase' = "done" /\ UNCHANGED <<fn, ip, stack, env, conts>>
       ELSE /\ fn' = Last(conts).fn
            /\ ip' = Last(conts).ip
            /\ env' = Last(conts).env
            /\ stack' = Last(conts).stack
            /\ conts' = Front(conts)
            /\ UNCHANGED phase
    /\ UNCHANGED <<envs, globals>>

\* append and dlist of proper lists.
RECURSIVE AppendAll(_), Dlist(_)
AppendAll(xs) == CASE xs = <<>> -> Nil
                   [] Len(xs) = 1 -> xs[1]
                   [] OTHER -> Dotted(Members(xs[1]), AppendAll(Tail(xs)))
Dlist(xs) == IF Len(xs) = 1 THEN xs[1] ELSE Pair(xs[1], Dlist(Tail(xs)))


ApplyClosure ==
    /\ At({"apply"})
    /\ val.tag = "clos"
    /\ Enter(val, Word(1))
    /\ UNCHANGED <<program, stack>>

\* arc_apply: all but the last argument, then the members of the last.
ApplyBuiltin ==
    /\ At({"apply"})
    /\ val.tag = "builtin"
    /\ UNCHANGED program
    /\ LET args == LastOf(Word(1))
           all  == Tail(Front(args)) \o Members(Last(args))
       IN  CASE val.fn = "append" -> Resume(AppendAll(args)) /\ UNCHANGED argc
             [] val.fn = "dlist" -> Resume(Dlist(args)) /\ UNCHANGED argc
             [] val.fn = "no" -> /\ Resume(IF IsNil(args[1]) THEN True ELSE Nil)
                                 /\ UNCHANGED argc
             [] val.fn \in {"idiv", "mod", "coerce"} ->
                  IF ~ (IsNum(args[1]) /\ (IsNum(args[2]) \/ val.fn = "coerce")) THEN Error
                  ELSE LET v == CASE val.fn = "idiv" -> Idiv2(args[1], args[2])
                                  [] val.fn = "mod" -> Mod2(args[1], args[2])
                                  [] val.fn = "coerce" -> ToInt(args[1])
                       IN  IF v = NotANumber THEN Error
                           ELSE Resume(v) /\ UNCHANGED argc
             [] val.fn = "apply" -> Enter(args[1], Len(all)) /\ stack' = all

ApplyOther ==
    /\ At({"apply"})
    /\ val.tag \notin {"clos", "builtin"}
    /\ UNCHANGED program
    /\ Error

Return ==
    /\ At({"ret"})
    /\ Resume(val)
    /\ UNCHANGED <<program, argc>>

Done == phase # "run" /\ UNCHANGED vars

Next ==
    \/ Load \/ LoadGlobal \/ Save \/ Push \/ Pop \/ Jump \/ TakeApart \/ Operate
    \/ MakeEnv \/ MakeCont \/ MoveEnv \/ MakeClosure
    \/ ApplyClosure \/ ApplyBuiltin \/ ApplyOther \/ Return
    \/ Done

Spec == Init /\ [][Next]_vars
=============================================================================
