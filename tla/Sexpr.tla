-------------------------------- MODULE Sexpr --------------------------------
(***************************************************************************)
(* The data of Arc that programs are made of and compute with: lists,      *)
(* symbols and numbers, and the values only a running program makes.       *)
(***************************************************************************)
EXTENDS Numbers, Sequences, SequencesExt

Nil == [tag |-> "nil"]
True == [tag |-> "t"]
Unbound == [tag |-> "unbound"]                  \* CUNBOUND
Num(n) == MakeFixnum(n)
Sym(s) == [tag |-> "sym", sym |-> s]
Pair(a, d) == [tag |-> "cons", car |-> a, cdr |-> d]
Builtin(f) == [tag |-> "builtin", fn |-> f]
String(cs) == [tag |-> "string", chars |-> cs]
Char(c) == [tag |-> "char", char |-> c]

IsNil(x) == x.tag = "nil"
IsSym(x) == x.tag = "sym"
IsCons(x) == x.tag = "cons"
IsNum(x) == Number(x)
Is(x, s) == IsSym(x) /\ x.sym = s

\* The list of the members of a sequence, before the tail d.
Dotted(xs, d) == FoldRight(LAMBDA x, rest : Pair(x, rest), xs, d)
MakeList(xs) == Dotted(xs, Nil)

Cadr(x) == x.cdr.car

\* The members of a list, without what its last cdr holds; and that.
RECURSIVE Members(_), LastCdr(_)
Members(x) == IF IsCons(x) THEN <<x.car>> \o Members(x.cdr) ELSE <<>>
LastCdr(x) == IF IsCons(x) THEN LastCdr(x.cdr) ELSE x

Form(s, xs) == MakeList(<<Sym(s)>> \o xs)
IsForm(x, s) == IsCons(x) /\ Is(x.car, s)
=============================================================================
