------------------------------- MODULE Bytecode ------------------------------
(***************************************************************************)
(* What the virtual machine (src/src/vmengine.c) takes for granted of the  *)
(* code it runs, since none of its instructions looks at the stack, the    *)
(* environment or the code before it uses them.  Code is well formed when  *)
(* every address can be given one shape of the operands pushed since the   *)
(* function was entered, whichever way the address is reached.  A shape is *)
(* a sequence of "v" for a value and of the addresses where continuations  *)
(* made on the way go on.                                                  *)
(***************************************************************************)
EXTENDS Compiler

Value == [is |-> "value", addr |-> 0]
Cont(a) == [is |-> "cont", addr |-> a]
Moved == [is |-> "moved", addr |-> 0]           \* after menv: only an apply may follow

Width(op) == CASE op \in {"env", "envr"} -> 4
               [] op \in {"lde", "ste"} -> 3
               [] op \in {"ldi", "ldl", "ldg", "stg", "lde0", "ste0", "jmp", "jf", "jbnd",
                          "cont", "menv", "apply"} -> 2
               [] OTHER -> 1

\* The addresses where instructions start, in order.
RECURSIVE StartsFrom(_, _)
StartsFrom(code, at) ==
    IF at >= Len(code) THEN <<>> ELSE <<at>> \o StartsFrom(code, at + Width(code[at + 1]))

\* The values popped and pushed by the plain instructions.
Pops(op) == IF op \in {"pop", "cons", "+", "-", "*", "/"} THEN 1 ELSE 0
Pushed(op) == IF op = "push" THEN <<Value>> ELSE <<>>

Values(shape, n) == /\ n <= Len(shape)
                    /\ \A i \in Len(shape) - n + 1 .. Len(shape) : shape[i] = Value
Under(shape, n) == SubSeq(shape, 1, Len(shape) - n)

RECURSIVE WellFormed(_, _)

\* scope: the sizes of the frames the code may reach, its own first.  At
\* each address in turn, flow has the shapes of the addresses that earlier
\* ones lead to, and ok says that nothing was wrong so far.
Flow(c, scope) ==
    LET code == c.code
        starts == StartsFrom(code, 0)
        Reach(f, at, shape) ==
            IF at \in DOMAIN f.flow THEN [f EXCEPT !.ok = @ /\ f.flow[at] = shape]
            ELSE [flow |-> (at :> shape) @@ f.flow, ok |-> f.ok /\ at \in ToSet(starts)]
        Check(f, good) == [f EXCEPT !.ok = @ /\ good]
        InScope(level, idx) == level < Len(scope) /\ idx \in 0 .. scope[level + 1] - 1
        Step(f, at) ==
            IF at \notin DOMAIN f.flow THEN f
            ELSE LET op    == code[at + 1]
                     shape == f.flow[at]
                     next  == at + Width(op)
                     one   == code[at + 2]
                     Lit   == c.lits[one + 1]
                 IN  CASE op \in {"jmp", "jf", "jbnd"} ->
                            LET g == Check(Reach(f, at + one, shape), one > 0)
                            IN  IF op = "jmp" THEN g ELSE Reach(g, next, shape)
                       [] op = "ret" -> Check(f, shape = <<>>)
                       [] op = "cont" -> Reach(f, next, Append(shape, Cont(at + one)))
                       [] op = "menv" ->
                            Reach(Check(f, Len(shape) = one /\ Values(shape, one)),
                                  next, Append(shape, Moved))
                       [] op = "apply" ->
                            IF shape # <<>> /\ Last(shape) = Moved
                            THEN Check(f, Len(shape) = one + 1)
                            ELSE LET under == Under(shape, one)
                                 IN  IF Values(shape, one) /\ under # <<>>
                                        /\ Last(under) = Cont(next)
                                     THEN Reach(f, next, Front(under))
                                     ELSE Check(f, FALSE)
                       [] op \in {"lde0", "ste0"} ->
                            Reach(Check(f, InScope(0, one)), next, shape)
                       [] op \in {"lde", "ste"} ->
                            Reach(Check(f, InScope(one, code[at + 3])), next, shape)
                       [] op \in {"ldl", "ldg", "stg"} ->
                            LET known == one \in 0 .. Len(c.lits) - 1
                                sound == CASE op \in {"ldg", "stg"} -> IsSym(Lit)
                                           [] Lit.tag = "code" ->
                                                /\ code[next + 1] = "cls"
                                                /\ WellFormed(Lit, scope)
                                           [] OTHER -> TRUE
                            IN  Reach(Check(f, known /\ sound), next, shape)
                       [] OTHER ->
                            Reach(Check(f, Values(shape, Pops(op))), next,
                                  Under(shape, Pops(op)) \o Pushed(op))
    IN  FoldLeft(Step, [flow |-> (0 :> <<>>), ok |-> code # <<>>], starts)

WellFormed(c, outer) ==
    LET own == IF c.code # <<>> /\ c.code[1] \in {"env", "envr"}
               THEN <<c.code[2] + c.code[3] + c.code[4]
                      + (IF c.code[1] = "envr" THEN 1 ELSE 0)>>
               ELSE <<>>
    IN  Flow(c, own \o outer).ok
=============================================================================
