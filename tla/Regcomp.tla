------------------------------- MODULE Regcomp -------------------------------
(***************************************************************************)
(* The compiler of regular expressions (src/src/regcomp.c): an operator-   *)
(* precedence parser over two stacks that emits a program of instructions  *)
(* as it reduces.  A state of the parser is a record; every function of    *)
(* the C code is an operator from such a record to the next one.  A call   *)
(* of rcerror, which is a longjmp out of the parser, sets the field err,   *)
(* and what follows it leaves the record alone.                            *)
(*                                                                         *)
(* A pattern is the sequence of the tokens that lex returns: their kind,   *)
(* the rune if it is a "rune", and the runes and dashes between its        *)
(* brackets if it is a "class" or a negated one.  A class that lex returns *)
(* has NCCRUNE / 2 spans at most: where the text has more, bldcclass ends  *)
(* the class there (regcomp.c:439) and what follows are tokens of its own. *)
(***************************************************************************)
EXTENDS Integers, Sequences, SequencesExt

CONSTANTS NStack,       \* depth of the two stacks (NSTACK)
          NSubexp,      \* subexpressions, the whole match included (NSUBEXP)
          NClass        \* character classes of a program (NCLASS)

Newline == 10
Dash == -1              \* an unquoted dash between the brackets of a class
DashRune == 45

Operators == {"(", ")", "|", "*", "+", "?"}
Classes == {"class", "nclass"}

Lexeme(k) == [kind |-> k, rune |-> 0, items |-> <<>>]

\* The precedences: the values of the tokens in regcomp.h.
Precedence(t) ==
    CASE t = "sentinel" -> -1
      [] t = "start" -> 0
      [] t = ")" -> 1
      [] t = "(" -> 2
      [] t = "|" -> 3
      [] t = "cat" -> 4
      [] t = "*" -> 5
      [] t = "+" -> 6
      [] t = "?" -> 7

-----------------------------------------------------------------------------
(* Character classes *)

\* A class as it is read, item by item: a dash stretches the last span to the
\* rune that follows (which may be a dash), and is an error first or last.  A
\* negated class starts with a span for the newline, so there a dash may come
\* first.
RuneOf(item) == IF item = Dash THEN DashRune ELSE item

Opened(class) ==
    [spans |-> IF class.kind = "nclass" THEN <<<<Newline, Newline>>>> ELSE <<>>,
     stretch |-> FALSE, bad |-> FALSE]

ReadItem(c, item) ==
    IF c.stretch
    THEN [c EXCEPT !.spans[Len(c.spans)][2] = RuneOf(item), !.stretch = FALSE]
    ELSE IF item = Dash
    THEN [c EXCEPT !.stretch = (c.spans # <<>>), !.bad = @ \/ c.spans = <<>>]
    ELSE [c EXCEPT !.spans = Append(@, <<item, item>>)]

ReadClass(class) ==
    LET Read[n \in 0 .. Len(class.items)] ==
          IF n = 0 THEN Opened(class) ELSE ReadItem(Read[n - 1], class.items[n])
    IN  Read[Len(class.items)]

Malformed(class) == LET c == ReadClass(class) IN c.bad \/ c.stretch

\* The spans in order of their starts.
InOrder(spans) == \A i, j \in DOMAIN spans : i < j => spans[i][1] <= spans[j][1]
Sorted(spans) ==
    CHOOSE s \in [1 .. Len(spans) -> ToSet(spans)] : InOrder(s) /\ ToSet(s) = ToSet(spans)

\* Spans that overlap are merged into one.
Merge(merged, s) ==
    IF merged = <<>> \/ s[1] > Last(merged)[2] THEN Append(merged, s)
    ELSE IF s[2] > Last(merged)[2] THEN [merged EXCEPT ![Len(merged)][2] = s[2]]
    ELSE merged

Merged(spans) ==
    LET Upto[n \in 0 .. Len(spans)] ==
          IF n = 0 THEN <<>> ELSE Merge(Upto[n - 1], spans[n])
    IN  Upto[Len(spans)]

bldcclass(class) == Merged(Sorted(ReadClass(class).spans))

-----------------------------------------------------------------------------
(* Instructions and stacks *)

\* right is the first choice of an OR; next is the second one there, and the
\* instruction that follows everywhere else (one field of a union in C).
Inst(type, spans, subid, right, next) ==
    [type |-> type, spans |-> spans, subid |-> subid, right |-> right, next |-> next]
newinst(type) == Inst(type, <<>>, 0, 0, 0)
Or(right, left) == Inst("or", <<>>, 0, right, left)
Bracket(type, subid, next) == Inst(type, <<>>, subid, 0, next)

Node(first, last) == [first |-> first, last |-> last]

rcerror(p, why) == [p EXCEPT !.err = why]

pushand(p, node) ==
    IF Len(p.ands) >= NStack THEN rcerror(p, "operand stack overflow")
    ELSE [p EXCEPT !.ands = Append(@, node)]

pushator(p, t) ==
    IF Len(p.ators) >= NStack THEN rcerror(p, "operator stack overflow")
    ELSE [p EXCEPT !.ators = Append(@, [op |-> t, subid |-> p.cursubid])]

\* n follows the instruction at the end of an operand.
Link(prog, node, n) == [prog EXCEPT ![node.last].next = n]

\* The program in which an operator has its operands (op2 the last one), and
\* the node made of them.
Made(prog, node) == [prog |-> prog, node |-> node]
Applied(prog, op, subid, op1, op2) ==
    LET i == Len(prog) + 1
    IN  CASE op = "(" ->
               Made(Link(prog, op2, i) \o
                      <<Bracket(")", subid, 0), Bracket("(", subid, op2.first)>>,
                    Node(i + 1, i))
          [] op = "|" ->
               Made(Link(Link(prog, op2, i), op1, i) \o
                      <<newinst("nop"), Or(op1.first, op2.first)>>,
                    Node(i + 1, i))
          [] op = "cat" ->
               Made(Link(prog, op1, op2.first), Node(op1.first, op2.last))
          [] op = "*" ->
               Made(Link(prog, op2, i) \o <<Or(op2.first, 0)>>, Node(i, i))
          [] op = "+" ->
               Made(Link(prog, op2, i) \o <<Or(op2.first, 0)>>, Node(op2.first, i))
          [] op = "?" ->
               Made(Link(prog, op2, i + 1) \o <<Or(op2.first, i + 1), newinst("nop")>>,
                    Node(i, i + 1))

Operands(t) == IF t \in {"|", "cat"} THEN 2 ELSE 1

\* The number of the bracket that is closed: the one it was pushed with.
SlipSubid(p) == p.cursubid
Subid(p) == Last(p.ators).subid

\* One operator is reduced: its operands give way to the node made of them.
Reduce(p) ==
    LET op   == Last(p.ators).op
        n    == Len(p.ands)
        made == Applied(p.prog, op, Subid(p), p.ands[n - 1], p.ands[n])
    IN  IF n < Operands(op) THEN rcerror(p, "missing operand")
        ELSE pushand([p EXCEPT !.prog = made.prog,
                               !.ators = Front(@),
                               !.ands = SubSeq(@, 1, n - Operands(op))],
                     made.node)

\* The slip: a right bracket stops at the first operator it reduces.
Slipevaluntil(p, pri) ==
    IF pri = ")" THEN Reduce(p)
    ELSE IF Precedence(Last(p.ators).op) < Precedence(pri) THEN p ELSE Reduce(p)

\* Reduces what binds at least as tightly as pri; a right bracket reduces
\* down to its left one, and a left bracket ends the loop whatever pri is.
\* There are no more rounds than operators.
Round(s, pri) ==
    LET op == Last(s.parser.ators).op
    IN  IF s.over \/ s.parser.err # "none" \/ (pri # ")" /\ Precedence(op) < Precedence(pri))
        THEN [s EXCEPT !.over = TRUE]
        ELSE [parser |-> Reduce(s.parser), over |-> op = "("]

evaluntil(p, pri) ==
    LET After[n \in 0 .. Len(p.ators)] ==
          IF n = 0 THEN [parser |-> p, over |-> FALSE] ELSE Round(After[n - 1], pri)
    IN  After[Len(p.ators)].parser

-----------------------------------------------------------------------------
(* Tokens *)

Pushed(p, t) ==
    IF p.err # "none" THEN p
    ELSE [pushator(p, t) EXCEPT !.lastwasand = t \in {"*", "?", "+"}]

\* Two operands in a row are a concatenation.
Cat(p) == IF p.lastwasand THEN Pushed(evaluntil(p, "cat"), "cat") ELSE p

operator(p, t) ==
    CASE t = ")" ->
           IF p.nbra = 0 THEN rcerror(p, "unmatched right paren")
           ELSE [evaluntil([p EXCEPT !.nbra = @ - 1], ")") EXCEPT !.lastwasand = TRUE]
      [] t = "(" ->
           IF p.cursubid + 1 >= NSubexp THEN rcerror(p, "too many subexpressions")
           ELSE Pushed(Cat([p EXCEPT !.cursubid = @ + 1, !.nbra = @ + 1]), "(")
      [] OTHER -> Pushed(evaluntil(p, t), t)

spansOf(t) == IF t.kind \in Classes THEN bldcclass(t)
              ELSE IF t.kind = "rune" THEN <<<<t.rune, t.rune>>>> ELSE <<>>

operand(p, t) ==
    LET q == Cat(p)
        i == Len(q.prog) + 1
        r == [q EXCEPT !.prog = Append(@, Inst(t.kind, spansOf(t), 0, 0, 0))]
    IN  IF q.err # "none" THEN q
        ELSE [pushand(r, Node(i, i)) EXCEPT !.lastwasand = TRUE]

\* What lex does for a class before its token reaches the parser.
Lexed(p, t) ==
    IF t.kind \notin Classes THEN p
    ELSE IF p.nclass >= NClass THEN rcerror(p, "too many character classes")
    ELSE IF Malformed(t) THEN rcerror(p, "malformed '[]'")
    ELSE [p EXCEPT !.nclass = @ + 1]

Token(p, t) ==
    LET q == Lexed(p, t)
    IN  IF q.err # "none" THEN q
        ELSE IF t.kind \in Operators THEN operator(q, t.kind) ELSE operand(q, t)

Fresh == [prog |-> <<>>, ands |-> <<>>,
          ators |-> <<[op |-> "sentinel", subid |-> 0]>>,
          nbra |-> 0, cursubid |-> 0, nclass |-> 0,
          lastwasand |-> FALSE, start |-> 0, err |-> "none"]

\* Past the NOPs from i on, of which there are no more than instructions.
PastNops(prog, i) ==
    LET Past[n \in 0 .. Len(prog)] ==
          IF n = 0 THEN i
          ELSE LET j == Past[n - 1]
               IN  IF j # 0 /\ prog[j].type = "nop" THEN prog[j].next ELSE j
    IN  Past[Len(prog)]

\* No instruction is followed by a NOP.
optimize(prog) ==
    [i \in DOMAIN prog |->
        IF prog[i].type = "end" THEN prog[i]
        ELSE [prog[i] EXCEPT !.next = PastNops(prog, @)]]

\* At the end of the pattern: END is one more operand, and the program
\* starts where the only operand left does.
Close(p) ==
    LET most  == evaluntil(p, "start")
        ended == IF most.err # "none" THEN most ELSE operand(most, Lexeme("end"))
        whole == IF ended.err # "none" THEN ended ELSE evaluntil(ended, "start")
    IN  IF whole.err # "none" THEN whole
        ELSE IF whole.nbra # 0 THEN rcerror(whole, "unmatched left paren")
        ELSE [whole EXCEPT !.prog = optimize(@), !.start = Last(whole.ands).first]
=============================================================================
