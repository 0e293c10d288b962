------------------------------- MODULE Printer --------------------------------
(***************************************************************************)
(* What write makes of a value: the pprint functions of src/src/cons.c,    *)
(* string.c, symbol.c and arith.c under __arc_disp_write (src/src/io.c).   *)
(* Texts are those of module Reader.  A value that holds itself is left    *)
(* out, and with it the table of the lists being written.                  *)
(***************************************************************************)
EXTENDS Reader

WriteNat(n) == Letters(ToString(n))
WriteInteger(n) == IF n < 0 THEN <<"-">> \o WriteNat(- n) ELSE WriteNat(n)

\* "%g" of a number with few digits: no fraction where it is whole.
WriteFlonum(x) ==
    LET k     == CHOOSE i \in 0..6 : /\ 10^i % x.den = 0
                                     /\ \A j \in 0..(i - 1) : 10^j % x.den # 0
        whole == Abs(x.num) \div x.den
        frac  == (Abs(x.num) % x.den) * (10^k \div x.den)
    IN  (IF x.num < 0 THEN <<"-">> ELSE <<>>) \o WriteNat(whole)
        \o (IF k = 0 THEN <<>> ELSE <<".">> \o Tail(WriteNat(10^k + frac)))

WriteNumber(x) == CASE x.tag = "flonum" -> WriteFlonum(x)
                    [] x.tag = "rational" -> WriteInteger(x.num) \o <<"/">> \o WriteNat(x.den)
                    [] OTHER -> WriteInteger(x.num)

\* Of the characters below a space only those with a letter are considered;
\* quotation marks and backslashes are written as they are.
EscapeLookup == "alarm" :> "a" @@ "backspace" :> "b" @@ "\t" :> "t" @@ "\n" :> "n"
                @@ "vtab" :> "v" @@ "\f" :> "f" @@ "\r" :> "r"
WriteString(cs) ==
    FoldLeft(LAMBDA text, c : text \o (IF c \in DOMAIN EscapeLookup
                                       THEN <<"\\", EscapeLookup[c]>> ELSE <<c>>),
             <<"\"">>, cs) \o <<"\"">>

\* The name that the table of character escapes got last.
WriteChar(c) ==
    LET named == {i \in DOMAIN CharNames : c \in DOMAIN Code /\ NamedChars[i] = Code[c]}
    IN  <<"#", "\\">> \o (IF named = {} THEN <<c>>
                          ELSE Letters(CharNames[CHOOSE i \in named : \A j \in named : j <= i]))

\* A space follows every member but the last of a proper list.
RECURSIVE Write(_), WriteMembers(_)
Write(x) == CASE IsNil(x) -> <<"nil">>
              [] x.tag = "t" -> <<"t">>
              [] IsSym(x) -> <<x.sym>>
              [] IsNum(x) -> WriteNumber(x)
              [] x.tag = "string" -> WriteString(x.chars)
              [] x.tag = "char" -> WriteChar(x.char)
              [] IsCons(x) -> <<"(">> \o WriteMembers(x) \o <<")">>

WriteMembers(x) ==
    CASE IsCons(x) -> Write(x.car) \o (IF IsNil(x.cdr) THEN <<>> ELSE <<" ">>)
                      \o WriteMembers(x.cdr)
      [] IsNil(x) -> <<>>
      [] OTHER -> <<" ", ".", " ">> \o Write(x)
=============================================================================
