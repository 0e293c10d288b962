-------------------------------- MODULE Reader --------------------------------
(***************************************************************************)
(* The reader (src/src/sread.c), with the conversion of numbers it relies  *)
(* on (src/src/arith.c): a text becomes an expression.  A text is a        *)
(* sequence of characters, and a character is a string of one; a name of   *)
(* a symbol may stand in a text as if it were a single character.          *)
(*                                                                         *)
(* A state of the reader is [text, at, line, lines, v]: the next character *)
(* to be read, the number of lines so far, where each list began and at    *)
(* which line (the table lndata), and what has been read.                  *)
(***************************************************************************)
EXTENDS Sexpr, TLC

Eof == [tag |-> "eof"]                          \* what the caller gave for it
Failure == [tag |-> "failure"]                  \* an error was raised
Start(text) == [text |-> text, at |-> 1, line |-> 1, lines |-> {}, v |-> Nil]

Peek(s) == IF s.at > Len(s.text) THEN "" ELSE s.text[s.at]     \* "" at the end
Skip(s) == [s EXCEPT !.at = @ + 1]
SkipLine(s) == [Skip(s) EXCEPT !.line = IF Peek(s) = "\n" THEN @ + 1 ELSE @]
Give(s, v) == [s EXCEPT !.v = v]
Fails(s) == Give(s, Failure)
Failed(s) == s.v = Failure

-----------------------------------------------------------------------------
(* Characters                                                                *)

Printable == << " ", "!", "\"", "#", "$", "%", "&", "'", "(", ")", "*", "+", ",", "-",
                ".", "/", "0", "1", "2", "3", "4", "5", "6", "7", "8", "9", ":", ";",
                "<", "=", ">", "?", "@", "A", "B", "C", "D", "E", "F", "G", "H", "I",
                "J", "K", "L", "M", "N", "O", "P", "Q", "R", "S", "T", "U", "V", "W",
                "X", "Y", "Z", "[", "\\", "]", "^", "_", "backquote", "a", "b", "c", "d", "e",
                "f", "g", "h", "i", "j", "k", "l", "m", "n", "o", "p", "q", "r", "s",
                "t", "u", "v", "w", "x", "y", "z" >>

\* The backquote and characters without a sign go by their names.
Controls == "null" :> 0 @@ "alarm" :> 7 @@ "backspace" :> 8 @@ "\t" :> 9 @@ "\n" :> 10
            @@ "vtab" :> 11 @@ "\f" :> 12 @@ "\r" :> 13
Code == [c \in {Printable[i] : i \in DOMAIN Printable} |->
           31 + CHOOSE i \in DOMAIN Printable : Printable[i] = c] @@ Controls
Chr(n) == IF \E c \in DOMAIN Code : Code[c] = n THEN CHOOSE c \in DOMAIN Code : Code[c] = n
          ELSE "rune" \o ToString(n)

Spaces == {" ", "\t", "\n", "vtab", "\f", "\r"}
Delimiters == Spaces \union {"", "(", ")", "'", ";", "[", "]"}
IsSymbolic(c) == c \notin Delimiters

Digits == {"0", "1", "2", "3", "4", "5", "6", "7", "8", "9"}

\* The value of a digit or letter, or none where it is above the limit.
None == -1
DigitUpTo(c, limit) ==
    LET n == IF c \notin DOMAIN Code THEN None
             ELSE CASE Code[c] \in 48..57 -> Code[c] - 48
                    [] Code[c] \in 65..90 -> Code[c] - 55
                    [] Code[c] \in 97..122 -> Code[c] - 87
                    [] OTHER -> None
    IN  IF n <= limit THEN n ELSE None

\* rune2dig is given the radix as a fixnum, INT2FIX(radix), which is
\* 2 * radix + 1, and compares the digit with that.
RuneToDigit(c, radix) == DigitUpTo(c, 2 * radix + 1)
HexDigit(c) == DigitUpTo(c, 15)

\* The number the digits make, or none where one is not a digit.
Positional(cs, base, Digit(_)) ==
    FoldLeft(LAMBDA n, c : IF n = None \/ Digit(c) = None THEN None ELSE n * base + Digit(c),
             0, cs)

-----------------------------------------------------------------------------
(* Numbers: arc_string2num and str2flonum, without complex numbers,          *)
(* infinities and what is not a number.                                      *)

Signed(cs) == cs # <<>> /\ Head(cs) \in {"+", "-"}
Unsigned(cs) == IF Signed(cs) THEN Tail(cs) ELSE cs
SignOf(cs) == IF Signed(cs) /\ Head(cs) = "-" THEN -1 ELSE 1

\* Digits, perhaps a fraction, perhaps an exponent; any part may be empty.
StringToFlonum(cs) ==
    LET ds == Unsigned(cs)
        part(set, from) == LET is == {i \in from..Len(ds) : ds[i] \in set}
                           IN  IF is = {} THEN Len(ds) + 1
                               ELSE CHOOSE i \in is : \A j \in is : i <= j
        e     == part({"e", "E"}, 1)
        dot   == IF part({"."}, 1) < e THEN part({"."}, 1) ELSE e
        whole == SubSeq(ds, 1, dot - 1)
        frac  == SubSeq(ds, dot + 1, e - 1)
        expn  == SubSeq(ds, e + 1, Len(ds))
        Decimal(xs) == Positional(xs, 10, LAMBDA c : IF c \in Digits THEN Code[c] - 48 ELSE None)
        m     == Decimal(whole \o frac)
        x     == Decimal(Unsigned(expn))
        up    == IF SignOf(expn) = 1 THEN 10^x ELSE 1
        down  == IF SignOf(expn) = 1 THEN 1 ELSE 10^x
    IN  IF ds = <<>> \/ m = None \/ x = None THEN NotANumber
        ELSE Ratio("flonum", SignOf(cs) * m * up, down * 10^Len(frac))

\* What the digits before the i-th character came to is nval; after a radix,
\* which is 0 until one is seen, only digits follow.
RECURSIVE StringToNum(_, _), NumberFrom(_, _, _, _, _)
NumberFrom(cs, rational, i, nval, radix) ==
    LET base == IF radix = 0 THEN 10 ELSE radix
        d    == RuneToDigit(cs[i], base)
        end  == i > Len(cs)
        Among(set) == ~ end /\ radix = 0 /\ cs[i] \in set
    IN  CASE end -> Mul2(nval, Num(SignOf(cs)))
          [] Among({".", "e", "E", "i", "I", "j", "J", "+", "-"}) -> StringToFlonum(cs)
          [] Among({"r"}) -> IF nval.tag = "fixnum" /\ nval.num \in 2..36
                             THEN NumberFrom(cs, rational, i + 1, Num(0), nval.num)
                             ELSE NotANumber
          [] Among({"/"}) ->
               LET denom == StringToNum(SubSeq(cs, i + 1, Len(cs)), TRUE)
               IN  IF ~ rational /\ denom.tag \in {"fixnum", "bignum"}
                   THEN Div2(Mul2(Num(SignOf(cs)), nval), denom)
                   ELSE NotANumber
          [] OTHER -> IF d = None THEN NotANumber
                      ELSE NumberFrom(cs, rational, i + 1,
                                      Add2(Mul2(nval, Num(base)), Num(d)), radix)

StringToNum(cs, rational) ==
    LET first == IF Signed(cs) THEN 2 ELSE 1
    IN  CASE first > Len(cs) -> NotANumber
          [] first <= Len(cs) /\ cs[first] = "." -> StringToFlonum(cs)
          [] first <= Len(cs) /\ cs[first] \in Digits -> NumberFrom(cs, rational, first, Num(0), 0)
          [] OTHER -> NotANumber

-----------------------------------------------------------------------------
(* Symbols *)

\* getsymbol: up to the first character that no symbol has; or a regular
\* expression r/.../ with its flags, which has to be followed by a space.
RECURSIVE SymbolEnd(_), RegexEnd(_), Flags(_, _)
SymbolEnd(s) == IF IsSymbolic(Peek(s)) THEN SymbolEnd(Skip(s)) ELSE s
RegexEnd(s) == CASE Peek(s) = "/" \/ s.at > Len(s.text) -> s
                 [] Peek(s) = "\\" -> RegexEnd(Skip(Skip(s)))
                 [] OTHER -> RegexEnd(Skip(s))
Flags(s, seen) == CASE Peek(s) \in {"i", "m"} \ seen -> Flags(Skip(s), seen \union {Peek(s)})
                    [] Peek(s) \in Spaces -> Give(Skip(s), seen)
                    [] OTHER -> Fails(s)

Between(s, e) == SubSeq(s.text, s.at, e.at - 1)

Regexp(s) ==
    LET body == Skip(Skip(s))
        end  == RegexEnd(body)
        rest == Flags(Skip(end), {})
    IN  IF end.at > Len(s.text) \/ Failed(rest) THEN Fails(rest)
        ELSE Give(rest, [tag |-> "regexp", chars |-> Between(body, end), flags |-> rest.v])

Intern(cs) == LET name == FoldLeft(LAMBDA n, c : n \o c, "", cs)
              IN  IF name = "nil" THEN Nil ELSE IF name = "t" THEN True ELSE Sym(name)

\* A number if it can be one, or a symbol; a dot is a symbol here.
ReadSymbol(s) ==
    LET end == SymbolEnd(s)
        cs  == Between(s, end)
        num == StringToNum(cs, FALSE)
    IN  IF Peek(s) = "r" /\ Peek(Skip(s)) = "/" THEN Regexp(s)
        ELSE Give(end, CASE cs = <<".">> -> Intern(cs)
                         [] cs # <<".">> /\ num # NotANumber -> num
                         [] OTHER -> Intern(cs))

-----------------------------------------------------------------------------
(* Strings and characters *)

Escapes == "'" :> "'" @@ "\"" :> "\"" @@ "\\" :> "\\" @@ "0" :> "null" @@ "a" :> "alarm"
           @@ "b" :> "backspace" @@ "t" :> "\t" @@ "n" :> "\n" @@ "v" :> "vtab"
           @@ "f" :> "\f" @@ "r" :> "\r"

\* A unicode escape has five digits and is not the end of the text.
RECURSIVE ReadString(_, _)
ReadString(s, cs) ==
    LET c    == Peek(s)
        e    == Peek(Skip(s))
        hex  == SubSeq(s.text, s.at + 2, s.at + 6)
        code == Positional(hex, 16, HexDigit)
    IN  CASE c = "" -> Fails(s)
          [] c = "\"" -> Give(Skip(s), String(cs))
          [] c = "\\" /\ e \in DOMAIN Escapes ->
               ReadString(Skip(Skip(s)), Append(cs, Escapes[e]))
          [] c = "\\" /\ e \in {"u", "U"} ->
               IF s.at + 7 > Len(s.text) \/ code = None THEN Fails(s)
               ELSE ReadString([s EXCEPT !.at = @ + 7], Append(cs, Chr(code)))
          [] c = "\\" /\ e \notin DOMAIN Escapes \union {"u", "U"} -> Fails(s)
          [] OTHER -> ReadString(SkipLine(s), Append(cs, c))

Letters(name) == [i \in 1..Len(name) |-> SubSeq(name, i, i)]
CharNames == <<"null", "nul", "backspace", "tab", "newline", "vtab", "page", "return",
               "space", "rubout">>
NamedChars == <<0, 0, 8, 9, 10, 11, 12, 13, 32, 127>>
NameIndexes(cs) == {i \in DOMAIN CharNames : Letters(CharNames[i]) = cs}

OctalDigit(c) == IF c \in Digits THEN Code[c] - 48 ELSE None

\* After #\ the token is one character, three digits, two hexadecimal ones
\* after an x, any number of them after a u, or a name.
CharOf(cs) ==
    LET octal == Positional(cs, 8, OctalDigit)
        hex   == Positional(Tail(cs), 16, HexDigit)
    IN  CASE Len(cs) = 1 -> Char(cs[1])
          [] Len(cs) = 3 /\ octal # None -> Char(Chr(octal))
          [] Len(cs) # 1 /\ hex # None
             /\ (Head(cs) \in {"u", "U"} \/ (Len(cs) = 3 /\ Head(cs) = "x")) -> Char(Chr(hex))
          [] OTHER -> IF NameIndexes(cs) = {} THEN Failure
                      ELSE Char(Chr(NamedChars[CHOOSE i \in NameIndexes(cs) : TRUE]))

ReadChar(s) ==
    LET t   == Skip(s)
        end == SymbolEnd(t)
    IN  CASE Peek(s) # "\\" \/ Peek(t) = "" -> Fails(s)
          [] Peek(s) = "\\" /\ Peek(t) # "" /\ ~ IsSymbolic(Peek(t)) ->
               Give(Skip(t), Char(Peek(t)))
          [] OTHER -> Give(end, CharOf(Between(t, end)))

-----------------------------------------------------------------------------
(* Expressions *)

RECURSIVE Scan(_), ReadComment(_), Skim(_)
Scan(s) == IF Peek(s) \in Spaces THEN Scan(SkipLine(s)) ELSE s
SlipReadComment(s) == IF Peek(s) \in {"", "\n"} THEN Skip(s) ELSE ReadComment(Skip(s))
ReadComment(s) == IF Peek(s) \in {"", "\n"} THEN SkipLine(s) ELSE ReadComment(Skip(s))
\* Every loop over expressions skips the comments between them.
Skim(s) == LET t == Scan(s) IN IF Peek(t) = ";" THEN Skim(ReadComment(Skip(t))) ELSE t

RECURSIVE Read(_), ReadList(_, _), ReadTail(_, _), ReadAnonf(_, _), ReadQuoted(_, _)

SlipReadList(s, items) ==
    LET t == Skim(s)
        r == Read(t)
    IN  CASE Peek(t) \in {"", ")"} -> Give(Skip(t), MakeList(items))
          [] OTHER -> IF Failed(r) THEN r
                      ELSE IF r.v = Sym(".") THEN ReadTail(r, items)
                      ELSE ReadList(r, Append(items, r.v))

\* The end of the text ends every list that is open, and what is read is
\* what the caller gave for the end.
ReadList(s, items) ==
    LET t == Skim(s)
        r == Read(t)
    IN  CASE Peek(t) = "" -> Give(t, Eof)
          [] Peek(t) = ")" -> Give(Skip(t), MakeList(items))
          [] OTHER -> IF Failed(r) THEN r
                      ELSE IF r.v = Sym(".") THEN ReadTail(r, items)
                      ELSE ReadList(r, Append(items, r.v))

ReadTail(s, items) ==
    LET r == Read(s)
        t == Skim(r)
    IN  CASE Failed(r) -> r
          [] ~ Failed(r) /\ items = <<>> -> Fails(r)
          [] ~ Failed(r) /\ items # <<>> ->
               CASE Peek(t) = "" -> Give(t, Eof)
                 [] Peek(t) = ")" -> Give(Skip(t), Dotted(items, r.v))
                 [] OTHER -> Fails(t)

\* [... _ ...] is (fn (_) (... _ ...)).
ReadAnonf(s, items) ==
    LET t == Skim(s)
        r == Read(t)
    IN  CASE Peek(t) = "" -> Give(t, Eof)
          [] Peek(t) = "]" ->
               Give(Skip(t), Form("fn", <<MakeList(<<Sym("_")>>), MakeList(items)>>))
          [] OTHER -> IF Failed(r) THEN r ELSE ReadAnonf(r, Append(items, r.v))

ReadQuoted(s, q) ==
    LET r == Read(s)
    IN  IF Failed(r) THEN r ELSE Give(r, Form(q, <<r.v>>))

SlipReadComma(s) == IF Peek(s) = "" THEN Fails(s) ELSE ReadQuoted(s, "unquote")
ReadComma(s) == CASE Peek(s) = "" -> Fails(s)
                  [] Peek(s) = "@" -> ReadQuoted(Skip(s), "unquote-splicing")
                  [] OTHER -> ReadQuoted(s, "unquote")

\* arc_sread; where a list began is noted with the line.
Read(s) ==
    LET t == Skim(s)
        u == Skip(t)
        c == Peek(t)
        r == CASE c = "" -> Give(t, Eof)
               [] c = "(" -> ReadList(u, <<>>)
               [] c = "[" -> ReadAnonf(u, <<>>)
               [] c \in {")", "]"} -> Fails(u)
               [] c = "'" -> ReadQuoted(u, "quote")
               [] c = "backquote" -> ReadQuoted(u, "quasiquote")
               [] c = "," -> ReadComma(u)
               [] c = "\"" -> ReadString(u, <<>>)
               [] c = "#" -> ReadChar(u)
               [] OTHER -> ReadSymbol(t)
    IN  IF IsCons(r.v) THEN [r EXCEPT !.lines = @ \union {<<t.at, t.line>>}] ELSE r
=============================================================================
