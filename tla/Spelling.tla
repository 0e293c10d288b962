------------------------------- MODULE Spelling -------------------------------
(***************************************************************************)
(* Other texts of an expression than the one write makes of it: quotation  *)
(* marks and brackets for the forms they stand for, escapes, numbers with  *)
(* a radix, and between two expressions any gap of spaces and comments.    *)
(***************************************************************************)
EXTENDS Printer

Marks == "quote" :> <<"'">> @@ "quasiquote" :> <<"backquote">>
         @@ "unquote" :> <<",">> @@ "unquote-splicing" :> <<",", "@">>
IsMarked(x) == /\ IsCons(x) /\ IsSym(x.car) /\ x.car.sym \in DOMAIN Marks
               /\ IsCons(x.cdr) /\ IsNil(x.cdr.cdr)

\* (fn (_) (...))
IsBracketed(x) == /\ IsForm(x, "fn") /\ IsNil(LastCdr(x)) /\ Len(Members(x)) = 3
                  /\ Cadr(x) = MakeList(<<Sym("_")>>)
                  /\ LET body == x.cdr.cdr.car
                     IN  IsNil(LastCdr(body)) /\ Sym(".") \notin {Members(body)[i] : i \in DOMAIN Members(body)}

HexDigits == Letters("0123456789abcdef")
RECURSIVE Hex(_)
Hex(n) == (IF n < 16 THEN <<>> ELSE Hex(n \div 16)) \o <<HexDigits[(n % 16) + 1]>>
Padded(cs, n) == [i \in 1..(n - Len(cs)) |-> "0"] \o cs

Joined(texts, gap) ==
    IF texts = <<>> THEN <<>>
    ELSE FoldLeft(LAMBDA text, t : text \o gap \o t, Head(texts), Tail(texts))

RECURSIVE Spell(_, _)
Spell(x, gap) ==
    LET Members2(xs) == Joined([i \in DOMAIN xs |-> Spell(xs[i], gap)], gap)
    IN  CASE IsMarked(x) -> Marks[x.car.sym] \o Spell(Cadr(x), gap)
          [] IsBracketed(x) -> <<"[">> \o Members2(Members(x.cdr.cdr.car)) \o gap \o <<"]">>
          [] IsCons(x) /\ ~ IsMarked(x) /\ ~ IsBracketed(x) ->
               <<"(">> \o gap \o Members2(Members(x))
               \o (IF IsNil(LastCdr(x)) THEN <<>>
                   ELSE gap \o <<".">> \o gap \o Spell(LastCdr(x), gap))
               \o gap \o <<")">>
          [] x.tag = "string" ->
               FoldLeft(LAMBDA text, c :
                          text \o (IF c \in {"\"", "\\"} THEN <<"\\", c>>
                                   ELSE IF c \in DOMAIN Code /\ gap # <<" ">>
                                   THEN <<"\\", "u">> \o Padded(Hex(Code[c]), 5) ELSE <<c>>),
                        <<"\"">>, x.chars) \o <<"\"">>
          [] x.tag = "char" -> <<"#", "\\", "x">> \o Padded(Hex(Code[x.char]), 2)
          [] x.tag \in {"fixnum", "bignum"} ->
               (IF x.num < 0 THEN <<"-">> ELSE <<"+">>) \o <<"1", "6", "r">> \o Hex(Abs(x.num))
          [] OTHER -> Write(x)
=============================================================================
