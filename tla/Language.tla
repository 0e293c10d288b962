------------------------------- MODULE Language ------------------------------
(***************************************************************************)
(* The compiler and the virtual machine together against what programs     *)
(* mean (module Meaning) and what the machine requires of code (Bytecode), *)
(* and the reader against the texts of programs (Printer and Spelling).    *)
(***************************************************************************)
EXTENDS Machine, Spelling

CONSTANT TextLength         \* of the longest text that is read

M == INSTANCE Meaning
B == INSTANCE Bytecode

\* A value of the machine and a value of Meaning are the same; functions
\* are compared as functions only.
RECURSIVE Agree(_, _)
Agree(v, m) ==
    CASE v.tag = "cons" -> m.tag = "cons" /\ Agree(v.car, m.car) /\ Agree(v.cdr, m.cdr)
      [] v.tag = "clos" -> m.tag = "fun"
      [] OTHER -> v.tag = m.tag /\ v = m

\* A program ends with the value it means, having assigned the globals it
\* assigns, or stops with an error when it means none: argument counts,
\* optional and rest parameters, destructuring, scopes and closures, order of
\* evaluation, branches, tail calls and templates, through compiler.c and
\* vmengine.c.
ResultMatchesMeaning ==
    phase # "run" =>
        \A r \in {M!Meaning(program, InitGlobals)} :
            /\ (phase = "error") = r.st.err
            /\ phase = "done" =>
                 /\ Agree(val, r.val)
                 /\ DOMAIN globals = DOMAIN r.st.glob
                 /\ \A g \in DOMAIN globals : Agree(globals[g], r.st.glob[g])

\* The code of every program that compiles is well formed: jumps patched by
\* arc_jmpoffset land on instructions, operands balance on every path, a
\* continuation goes on after its own apply, and every place of an
\* environment that is loaded or stored is one that env or envr made.
CodeIsWellFormed ==
    (phase = "run" /\ ip = 0 /\ fn.env = 0 /\ conts = <<>>) => B!WellFormed(fn.code, <<>>)

-----------------------------------------------------------------------------
(* The texts of the program, as it stands before it runs.                    *)

Starting == /\ phase # "done" /\ ip = 0 /\ conts = <<>> /\ envs = <<>>
            /\ Len(Write(program)) <= TextLength

\* %g writes a whole flonum without a point, and that is read as an integer.
RECURSIVE Rewritten(_)
Rewritten(x) == CASE IsCons(x) -> Pair(Rewritten(x.car), Rewritten(x.cdr))
                  [] x.tag = "flonum" /\ x.den = 1 -> BignumFixnum(x.num)
                  [] OTHER -> x

\* Neither a quotation mark nor a backslash in a string, which write leaves.
RECURSIVE WritesStrings(_)
WritesStrings(x) == CASE IsCons(x) -> WritesStrings(x.car) /\ WritesStrings(x.cdr)
                      [] x.tag = "string" -> \A i \in DOMAIN x.chars : x.chars[i] \notin {"\"", "\\"}
                      [] OTHER -> TRUE

Gaps == { <<" ">>, <<"\n", " ", ";", "a", "(", "\"", "\n", "\t">> }
Texts(x) == { Spell(x, gap) : gap \in Gaps } \union (IF WritesStrings(x) THEN {Write(x)} ELSE {})
Twice(text) == text \o <<"\n">> \o text

\* The reader called again and again until the text ends or is refused.
RECURSIVE Reads(_)
Reads(rs) == IF Last(rs).v \in {Eof, Failure} THEN Tail(rs)
             ELSE Reads(Append(rs, Read(Last(rs))))
ReadAll(text) == Reads(<<Start(text)>>)

\* The text of a program, written by write or spelled otherwise, twice over
\* is read as the program, the program again and the end: abbreviations,
\* dotted tails, comments, escapes, and numbers as narrow as they can be,
\* through sread.c and arc_string2num.
ReadsBack ==
    Starting =>
        \A text \in Texts(program) : \A rs \in {ReadAll(Twice(text))} :
            [i \in DOMAIN rs |-> rs[i].v] = <<Rewritten(program), Rewritten(program), Eof>>

\* The line noted for a list, which errors are reported with, is the one that
\* it begins at, whatever blanks, comments and strings come before.
LinesAreRight ==
    Starting =>
        \A text \in Texts(program) :
            \A l \in Last(ReadAll(Twice(text))).lines :
                l[2] = 1 + Cardinality({i \in 1..(l[1] - 1) : Twice(text)[i] = "\n"})

\* The text begins with a list, perhaps behind quotation marks.
OpensList(text) ==
    \E i \in DOMAIN text :
        /\ text[i] \in {"(", "["}
        /\ \A j \in 1..(i - 1) : text[j] \in {"'", "backquote", ",", "@"}

\* What the caller gave for the end, or a form that quotes it.
RECURSIVE IsEnd(_)
IsEnd(v) == v = Eof \/ (IsMarked(v) /\ IsEnd(Cadr(v)))

\* A text that stops before its list does is never taken for the list, nor
\* for a part of it: it reads as an error, as what the caller gave for the
\* end, or, where quotation marks come before the list, as that value quoted
\* (readq quotes whatever it is given).
CutTextIsNotRead ==
    Starting =>
        \A text \in {t \in Texts(program) : OpensList(t)} :
            \A n \in 1..(Len(text) - 1) :
                LET v == Read(Start(SubSeq(text, 1, n))).v
                IN  v = Failure \/ IsEnd(v)
=============================================================================
