--------------------------- MODULE RegcompProofs ----------------------------
(***************************************************************************)
(* Theorems about regular expressions, for any patterns, texts and limits: *)
(* what the parser builds, and what the machine finds with it.             *)
(***************************************************************************)
EXTENDS RregexecProofs

-----------------------------------------------------------------------------
(* The stacks of the parser                                                *)

Parts == [first : Nat, last : Nat]
Binary == {"|", "cat"}
Unary == {"*", "+", "?"}
Ators == {a \in [op : {"sentinel", "("} \cup Binary \cup Unary, subid : Nat] :
            a.op = "(" => a.subid \in 1 .. NSubexp - 1}
Errors == {"none", "missing operand", "operand stack overflow", "operator stack overflow",
           "unmatched left paren", "unmatched right paren", "too many subexpressions",
           "too many character classes", "malformed '[]'"}
Parsers == [prog : Seq(Good), ands : Seq(Parts), ators : Seq(Ators),
            nbra : Nat, cursubid : 0 .. NSubexp - 1, nclass : Nat,
            lastwasand : BOOLEAN, start : Nat, err : Errors]

(* f[i] of the operators up to the i-th are among ops.                      *)
Counts(ators, f, ops) ==
    /\ f \in [Nat -> Nat] /\ f[1] = 0
    /\ \A i \in 2 .. Len(ators) : f[i] = f[i - 1] + (IF ators[i].op \in ops THEN 1 ELSE 0)

(* The sentinel is at the bottom; nd counts the operators of two operands   *)
(* and nb the open brackets.                                                *)
Stacked(p, nd, nb) ==
    /\ p \in Parsers /\ Len(p.ators) >= 1
    /\ p.ators[1].op = "sentinel" /\ \A i \in 2 .. Len(p.ators) : p.ators[i].op # "sentinel"
    /\ Counts(p.ators, nd, Binary) /\ Counts(p.ators, nb, {"("})

(* What the reductions leave alone.                                         *)
Else(p, q) ==
    /\ q.nbra = p.nbra /\ q.cursubid = p.cursubid /\ q.nclass = p.nclass
    /\ q.lastwasand = p.lastwasand /\ q.start = p.start

LEMMA LinkTyped ==
  ASSUME NEW prog \in Seq(Good), NEW x \in Parts, NEW n \in Nat
  PROVE  Link(prog, x, n) \in Seq(Good) /\ Len(Link(prog, x, n)) = Len(prog)
<1> DEFINE v == [prog[x.last] EXCEPT !.next = n]
<1>1. Link(prog, x, n) = [prog EXCEPT ![x.last] = v]
  BY DEF Link
<1>2. CASE x.last \in 1 .. Len(prog)
  <2>1. v \in Good
    BY <1>2, GoodLinked
  <2> HIDE DEF v
  <2> QED BY <1>1, <1>2, <2>1
<1>3. CASE x.last \notin 1 .. Len(prog)
  <2> HIDE DEF v
  <2>1. [prog EXCEPT ![x.last] = v] = prog
    BY <1>3
  <2> QED BY <1>1, <2>1
<1> QED BY <1>2, <1>3

LEMMA TailTyped ==
  ASSUME NEW prog \in Seq(Good), NEW a \in Good, NEW b \in Good
  PROVE  prog \o <<a>> \in Seq(Good) /\ prog \o <<a, b>> \in Seq(Good)
OBVIOUS

LEMMA AppliedTyped ==
  ASSUME NEW prog \in Seq(Good), NEW op \in {"("} \cup Binary \cup Unary, NEW subid,
         op = "(" => subid \in 1 .. NSubexp - 1,
         NEW x, op \in Binary => x \in Parts, NEW y \in Parts
  PROVE  /\ Applied(prog, op, subid, x, y).prog \in Seq(Good)
         /\ Applied(prog, op, subid, x, y).node \in Parts
<1> DEFINE i == Len(prog) + 1
           f == y.first
           l == y.last
           once == Link(prog, y, i)
           later == Link(prog, y, i + 1)
<1>1. i \in Nat /\ i + 1 \in Nat /\ f \in Nat /\ l \in Nat
  BY DEF Parts
<1>2. once \in Seq(Good) /\ later \in Seq(Good)
  BY <1>1, LinkTyped
<1>3. \A m, n \in Nat : Node(m, n) \in Parts /\ Or(m, n) \in Good /\ newinst("nop") \in Good
  BY GoodMade DEF Node, Parts
<1>4. SUFFICES \E pr \in Seq(Good), nd \in Parts : Applied(prog, op, subid, x, y) = Made(pr, nd)
  BY DEF Made
<1>5. CASE op = "("
  <2>1. Applied(prog, op, subid, x, y) =
           Made(once \o <<Bracket(")", subid, 0), Bracket("(", subid, f)>>, Node(i + 1, i))
    BY <1>5 DEF Applied
  <2>2. Bracket(")", subid, 0) \in Good /\ Bracket("(", subid, f) \in Good
    BY <1>1, <1>5, GoodMade
  <2> HIDE DEF i, f, l, once, later
  <2>3. once \o <<Bracket(")", subid, 0), Bracket("(", subid, f)>> \in Seq(Good)
    BY <1>2, <2>2, TailTyped
  <2>4. Node(i + 1, i) \in Parts
    BY <1>1, <1>3
  <2> QED BY <2>1, <2>3, <2>4, Zenon
<1>6. CASE op = "|"
  <2> DEFINE twice == Link(once, x, i)
  <2>1. Applied(prog, op, subid, x, y) =
           Made(twice \o <<newinst("nop"), Or(x.first, f)>>, Node(i + 1, i))
    BY <1>6 DEF Applied
  <2>2. x \in Parts /\ x.first \in Nat
    BY <1>6 DEF Binary, Parts
  <2>3. twice \in Seq(Good)
    <3> HIDE DEF i, once
    <3> QED BY <1>1, <1>2, <2>2, LinkTyped
  <2> HIDE DEF i, f, l, once, later, twice
  <2>4. twice \o <<newinst("nop"), Or(x.first, f)>> \in Seq(Good)
    BY <1>1, <1>3, <2>2, <2>3, TailTyped
  <2>5. Node(i + 1, i) \in Parts
    BY <1>1, <1>3
  <2> QED BY <2>1, <2>4, <2>5, Zenon
<1>7. CASE op = "cat"
  <2>1. Applied(prog, op, subid, x, y) = Made(Link(prog, x, f), Node(x.first, l))
    BY <1>7 DEF Applied
  <2>2. x \in Parts /\ x.first \in Nat
    BY <1>7 DEF Binary, Parts
  <2>3. Link(prog, x, f) \in Seq(Good)
    BY <1>1, <2>2, LinkTyped
  <2> HIDE DEF f, l
  <2>4. Node(x.first, l) \in Parts
    BY <1>1, <1>3, <2>2
  <2> QED BY <2>1, <2>3, <2>4, Zenon
<1>8. CASE op = "*" \/ op = "+"
  <2>1. \/ Applied(prog, op, subid, x, y) = Made(once \o <<Or(f, 0)>>, Node(i, i))
        \/ Applied(prog, op, subid, x, y) = Made(once \o <<Or(f, 0)>>, Node(f, i))
    BY <1>8 DEF Applied
  <2> HIDE DEF i, f, l, once, later
  <2>2. once \o <<Or(f, 0)>> \in Seq(Good)
    BY <1>1, <1>2, <1>3, TailTyped
  <2>3. Node(i, i) \in Parts /\ Node(f, i) \in Parts
    BY <1>1, <1>3
  <2> QED BY <2>1, <2>2, <2>3, Zenon
<1>9. CASE op = "?"
  <2>1. Applied(prog, op, subid, x, y) = Made(later \o <<Or(f, i + 1), newinst("nop")>>, Node(i, i + 1))
    BY <1>9 DEF Applied
  <2> HIDE DEF i, f, l, once, later
  <2>2. later \o <<Or(f, i + 1), newinst("nop")>> \in Seq(Good)
    BY <1>1, <1>2, <1>3, TailTyped
  <2>3. Node(i, i + 1) \in Parts
    BY <1>1, <1>3
  <2> QED BY <2>1, <2>2, <2>3, Zenon
<1> QED BY <1>5, <1>6, <1>7, <1>8, <1>9 DEF Binary, Unary

LEMMA ParserChanged ==
  ASSUME NEW p \in Parsers
  PROVE  /\ \A v \in Seq(Good) : [p EXCEPT !.prog = v] \in Parsers
         /\ \A v \in Seq(Parts) : [p EXCEPT !.ands = v] \in Parsers
         /\ \A v \in Seq(Ators) : [p EXCEPT !.ators = v] \in Parsers
         /\ \A v \in BOOLEAN : [p EXCEPT !.lastwasand = v] \in Parsers
         /\ \A v \in Errors : [p EXCEPT !.err = v] \in Parsers
BY DEF Parsers

LEMMA PrefixIs ==
  ASSUME NEW S, NEW s \in Seq(S), NEW n \in 0 .. Len(s)
  PROVE  /\ SubSeq(s, 1, n) \in Seq(S) /\ Len(SubSeq(s, 1, n)) = n
         /\ \A i \in 1 .. n : SubSeq(s, 1, n)[i] = s[i]
OBVIOUS

LEMMA FrontIs ==
  ASSUME NEW S, NEW s \in Seq(S), Len(s) >= 1
  PROVE  /\ Front(s) \in Seq(S) /\ Len(Front(s)) = Len(s) - 1 /\ Last(s) = s[Len(s)]
         /\ \A i \in 1 .. Len(s) - 1 : Front(s)[i] = s[i]
<1>1. Len(s) - 1 \in 0 .. Len(s)
  OBVIOUS
<1>2. Front(s) = SubSeq(s, 1, Len(s) - 1) /\ Last(s) = s[Len(s)]
  BY DEF Front, Last
<1> QED BY <1>1, <1>2, PrefixIs

(* A reduction without an error: what is left of the stacks.                *)
TopOp(p) == p.ators[Len(p.ators)].op
Arity(op) == IF op \in Binary THEN 2 ELSE 1
MadeOf(p) == Applied(p.prog, TopOp(p), p.ators[Len(p.ators)].subid,
                     p.ands[Len(p.ands) - 1], p.ands[Len(p.ands)])

Reduced(p, q) ==
    /\ Arity(TopOp(p)) <= Len(p.ands)
    /\ q.prog = MadeOf(p).prog
    /\ Len(q.ands) = Len(p.ands) - Arity(TopOp(p)) + 1
    /\ q.ands[Len(q.ands)] = MadeOf(p).node
    /\ \A i \in 1 .. Len(q.ands) - 1 : q.ands[i] = p.ands[i]
    /\ Len(q.ators) = Len(p.ators) - 1 /\ \A i \in 1 .. Len(q.ators) : q.ators[i] = p.ators[i]
    /\ Else(p, q)

LEMMA ErrorTyped ==
  ASSUME NEW p \in Parsers, NEW why \in Errors
  PROVE  /\ rcerror(p, why) \in Parsers /\ rcerror(p, why).err = why /\ Else(p, rcerror(p, why))
BY DEF Parsers, rcerror, Else

LEMMA PushandTyped ==
  ASSUME NEW p \in Parsers, NEW x \in Parts, p.err = "none"
  PROVE  /\ pushand(p, x) \in Parsers /\ Else(p, pushand(p, x))
         /\ pushand(p, x).err \in {"none", "operand stack overflow"}
         /\ pushand(p, x).err = "none" => /\ pushand(p, x).ands = Append(p.ands, x)
                                      /\ pushand(p, x).prog = p.prog
                                      /\ pushand(p, x).ators = p.ators
<1>1. CASE Len(p.ands) >= NStack
  <2>1. pushand(p, x) = rcerror(p, "operand stack overflow")
    BY <1>1 DEF pushand
  <2>2. "operand stack overflow" \in Errors /\ "operand stack overflow" # "none"
    BY DEF Errors
  <2> QED BY <2>1, <2>2, ErrorTyped
<1>2. CASE ~ (Len(p.ands) >= NStack)
  <2>1. pushand(p, x) = [p EXCEPT !.ands = Append(p.ands, x)]
    BY <1>2 DEF pushand
  <2>2. Append(p.ands, x) \in Seq(Parts)
    BY DEF Parsers
  <2> QED BY <2>1, <2>2 DEF Parsers, Else
<1> QED BY <1>1, <1>2

LEMMA ReduceIs ==
  ASSUME NEW p \in Parsers, p.err = "none", Len(p.ators) >= 1, TopOp(p) # "sentinel"
  PROVE  /\ Reduce(p) \in Parsers /\ Else(p, Reduce(p))
         /\ Reduce(p).err = "none" => Reduced(p, Reduce(p))
         /\ Reduce(p).err \in {"none", "operand stack overflow"} \/ Len(p.ands) < Arity(TopOp(p))
<1> DEFINE L == Len(p.ators)
           op == TopOp(p)
           n == Len(p.ands)
           sub == p.ators[L].subid
           made == MadeOf(p)
           m == n - Arity(op)
           q == [p EXCEPT !.prog = made.prog, !.ators = Front(p.ators), !.ands = SubSeq(p.ands, 1, m)]
<1>1. /\ p.ators \in Seq(Ators) /\ p.ands \in Seq(Parts) /\ p.prog \in Seq(Good) /\ L \in Nat \ {0}
      /\ n \in Nat
  BY DEF Parsers
<1>2. Last(p.ators) = p.ators[L] /\ p.ators[L] \in Ators
  BY <1>1 DEF Last
<1>3. op \in {"("} \cup Binary \cup Unary /\ (op = "(" => sub \in 1 .. NSubexp - 1)
  BY <1>2 DEF Ators, TopOp
<1>4. Operands(op) = Arity(op)
  BY <1>3 DEF Operands, Arity, Binary
<1>5. Reduce(p) = IF n < Arity(op) THEN rcerror(p, "missing operand") ELSE pushand(q, made.node)
  BY <1>2, <1>4 DEF Reduce, Subid, MadeOf, TopOp
<1>a. Arity(op) \in {1, 2} /\ (op \in Binary <=> Arity(op) = 2)
  BY DEF Arity
<1>6. CASE n < Arity(op)
  <2>1. Reduce(p) = rcerror(p, "missing operand") /\ Len(p.ands) < Arity(TopOp(p))
    BY <1>5, <1>6
  <2> HIDE DEF n, op
  <2>2. "missing operand" \in Errors /\ "missing operand" # "none"
    BY DEF Errors
  <2> QED BY <2>1, <2>2, ErrorTyped
<1>7. CASE ~ (n < Arity(op))
  <2>1. m \in 0 .. n /\ n >= 1
    <3> HIDE DEF n, op
    <3> QED BY <1>1, <1>7, <1>a
  <2>2. p.ands[n] \in Parts /\ (op \in Binary => p.ands[n - 1] \in Parts)
    <3>1. n \in 1 .. n /\ (op \in Binary => n - 1 \in 1 .. n)
      <4> HIDE DEF n, op
      <4> QED BY <1>1, <1>7, <1>a
    <3> HIDE DEF op
    <3> QED BY <1>1, <3>1
  <2>3. made.prog \in Seq(Good) /\ made.node \in Parts
    <3>1. made = Applied(p.prog, op, sub, p.ands[n - 1], p.ands[n])
      BY DEF MadeOf
    <3> HIDE DEF made, op, sub, n
    <3> QED BY <1>1, <1>3, <2>2, <3>1, AppliedTyped
  <2>4. /\ Front(p.ators) \in Seq(Ators) /\ Len(Front(p.ators)) = L - 1
        /\ \A i \in 1 .. L - 1 : Front(p.ators)[i] = p.ators[i]
    BY <1>1, FrontIs
  <2>5. /\ SubSeq(p.ands, 1, m) \in Seq(Parts) /\ Len(SubSeq(p.ands, 1, m)) = m
        /\ \A i \in 1 .. m : SubSeq(p.ands, 1, m)[i] = p.ands[i]
    <3> HIDE DEF m
    <3> QED BY <1>1, <2>1, PrefixIs
  <2> HIDE DEF made, m, op
  <2>6. /\ q \in Parsers /\ Else(p, q) /\ q.err = "none" /\ q.prog = made.prog
        /\ q.ators = Front(p.ators) /\ q.ands = SubSeq(p.ands, 1, m)
    BY <2>3, <2>4, <2>5 DEF Parsers, Else
  <2> HIDE DEF q
  <2>0. Reduce(p) = pushand(q, made.node)
    BY <1>5, <1>7
  <2> DEFINE x == made.node
  <2> HIDE DEF x
  <2>7. /\ Reduce(p) \in Parsers /\ Else(q, Reduce(p))
        /\ Reduce(p).err \in {"none", "operand stack overflow"}
        /\ Reduce(p).err = "none" => /\ Reduce(p).ands = Append(q.ands, made.node)
                                 /\ Reduce(p).prog = q.prog
                                 /\ Reduce(p).ators = q.ators
    <3>1. Reduce(p) = pushand(q, x) /\ x \in Parts
      BY <2>0, <2>3 DEF x
    <3>2. q \in Parsers /\ q.err = "none" /\ x \in Parts
      BY <2>6, <3>1
    <3>3. /\ pushand(q, x) \in Parsers /\ Else(q, pushand(q, x))
          /\ pushand(q, x).err \in {"none", "operand stack overflow"}
          /\ pushand(q, x).err = "none" => /\ pushand(q, x).ands = Append(q.ands, x)
                                           /\ pushand(q, x).prog = q.prog
                                           /\ pushand(q, x).ators = q.ators
      BY <3>2, PushandTyped
    <3> QED BY <3>1, <3>3 DEF x
  <2>8. Else(p, Reduce(p))
    BY <2>6, <2>7 DEF Else
  <2>9. ASSUME Reduce(p).err = "none" PROVE Reduced(p, Reduce(p))
    <3>1. /\ Reduce(p).ands = Append(q.ands, made.node) /\ Reduce(p).prog = made.prog
          /\ Reduce(p).ators = Front(p.ators)
      BY <2>6, <2>7, <2>9
    <3>2. /\ Len(Reduce(p).ands) = m + 1 /\ Reduce(p).ands[m + 1] = made.node
          /\ \A i \in 1 .. m : Reduce(p).ands[i] = p.ands[i]
      BY <2>1, <2>3, <2>5, <2>6, <3>1
    <3>3. m + 1 = Len(p.ands) - Arity(TopOp(p)) + 1 /\ (m + 1) - 1 = m
      BY <2>1 DEF m, op
    <3>4. Arity(TopOp(p)) <= Len(p.ands)
      <4>1. Arity(op) <= n
        <5> HIDE DEF n
        <5> QED BY <1>1, <1>7, <1>a
      <4> QED BY <4>1 DEF op
    <3> QED BY <2>4, <2>8, <3>1, <3>2, <3>3, <3>4 DEF Reduced, made
  <2> QED BY <2>7, <2>8, <2>9
<1> QED BY <1>6, <1>7

LEMMA CountsAt ==
  ASSUME NEW ators, NEW f, NEW ops, Counts(ators, f, ops), NEW i \in 2 .. Len(ators),
         Len(ators) \in Nat
  PROVE  /\ f[i] \in Nat /\ f[i - 1] \in Nat
         /\ ators[i].op \in ops => f[i] = f[i - 1] + 1
         /\ ators[i].op \notin ops => f[i] = f[i - 1]
<1>1. i \in Nat /\ i - 1 \in Nat
  OBVIOUS
<1>2. f \in [Nat -> Nat]
  BY DEF Counts
<1>3. f[i] \in Nat /\ f[i - 1] \in Nat
  BY <1>1, <1>2
<1>4. f[i] = f[i - 1] + (IF ators[i].op \in ops THEN 1 ELSE 0)
  BY DEF Counts
<1>5. CASE ators[i].op \in ops
  <2>1. f[i] = f[i - 1] + 1
    BY <1>4, <1>5
  <2> QED BY <1>3, <1>5, <2>1
<1>6. CASE ators[i].op \notin ops
  <2>1. f[i] = f[i - 1] + 0
    BY <1>4, <1>6
  <2> QED BY <1>3, <1>6, <2>1
<1> QED BY <1>5, <1>6

(* How many operands are missing does not change.                           *)
Balanced(p, q, nd, nb) ==
    /\ nd[Len(q.ators)] - Len(q.ands) = nd[Len(p.ators)] - Len(p.ands)
    /\ TopOp(p) = "(" => nb[Len(q.ators)] = nb[Len(p.ators)] - 1
    /\ TopOp(p) # "(" => nb[Len(q.ators)] = nb[Len(p.ators)]
    /\ Len(q.ands) >= 1 /\ Len(q.ators) = Len(p.ators) - 1

LEMMA NotTheSentinel ==
  ASSUME NEW p, NEW nd, NEW nb, Stacked(p, nd, nb), nb[Len(p.ators)] > 0
  PROVE  TopOp(p) # "sentinel"
<1> DEFINE n == Len(p.ators)
<1>1. n \in Nat /\ n >= 1 /\ nb[1] = 0 /\ \A i \in 2 .. n : p.ators[i].op # "sentinel"
  BY DEF Stacked, Counts, Parsers
<1>2. nb[n] > 0
  OBVIOUS
<1> HIDE DEF n
<1>3. n # 1
  BY <1>1, <1>2
<1>4. n \in 2 .. n
  BY <1>1, <1>3
<1>5. p.ators[n].op # "sentinel"
  BY <1>1, <1>4
<1> QED BY <1>5 DEF TopOp, n

LEMMA ReduceCounts ==
  ASSUME NEW p, NEW nd, NEW nb, Stacked(p, nd, nb), p.err = "none", TopOp(p) # "sentinel",
         NEW q, q = Reduce(p), q.err = "none"
  PROVE  /\ Stacked(q, nd, nb) /\ Reduced(p, q) /\ Len(p.ators) >= 2
         /\ Balanced(p, q, nd, nb)
<1> DEFINE L == Len(p.ators)
<1>1. p \in Parsers /\ L \in Nat /\ L >= 1
  BY DEF Stacked, Parsers
<1>2. q \in Parsers /\ Reduced(p, q)
  BY <1>1, ReduceIs
<1>3. L >= 2
  BY <1>1 DEF Stacked, TopOp
<1>4. Len(q.ators) = L - 1 /\ \A i \in 1 .. L - 1 : q.ators[i] = p.ators[i]
  BY <1>2 DEF Reduced
<1>5. \A f, ops : Counts(p.ators, f, ops) => Counts(q.ators, f, ops)
  <2> TAKE f, ops
  <2>1. \A i \in 2 .. L - 1 : i \in 2 .. L /\ i \in 1 .. L - 1
    BY <1>1
  <2> QED BY <1>4, <2>1 DEF Counts
<1>6. Stacked(q, nd, nb)
  <2>1. 1 \in 1 .. L - 1 /\ \A i \in 2 .. L - 1 : i \in 2 .. L /\ i \in 1 .. L - 1
    BY <1>1, <1>3
  <2> QED BY <1>2, <1>3, <1>4, <1>5, <2>1 DEF Stacked
<1>7. /\ TopOp(p) \in Binary => nd[L] = nd[L - 1] + 1
      /\ TopOp(p) \notin Binary => nd[L] = nd[L - 1]
      /\ TopOp(p) = "(" => nb[L] = nb[L - 1] + 1
      /\ TopOp(p) # "(" => nb[L] = nb[L - 1]
      /\ nd[L] \in Nat /\ nd[L - 1] \in Nat /\ nb[L] \in Nat /\ nb[L - 1] \in Nat
  <2>1. L \in 2 .. L
    BY <1>1, <1>3
  <2>2. Counts(p.ators, nd, Binary) /\ Counts(p.ators, nb, {"("})
    BY DEF Stacked
  <2>3. /\ p.ators[L].op \in Binary => nd[L] = nd[L - 1] + 1
        /\ p.ators[L].op \notin Binary => nd[L] = nd[L - 1]
        /\ nd[L] \in Nat /\ nd[L - 1] \in Nat
    BY ONLY <1>1, <2>1, <2>2, CountsAt, SMTT(60)
  <2>4. /\ p.ators[L].op \in {"("} => nb[L] = nb[L - 1] + 1
        /\ p.ators[L].op \notin {"("} => nb[L] = nb[L - 1]
        /\ nb[L] \in Nat /\ nb[L - 1] \in Nat
    BY ONLY <1>1, <2>1, <2>2, CountsAt, SMTT(60)
  <2> QED BY <2>3, <2>4 DEF TopOp
<1>8. /\ Len(p.ands) \in Nat /\ Arity(TopOp(p)) \in {1, 2}
      /\ TopOp(p) \in Binary <=> Arity(TopOp(p)) = 2
  BY <1>1 DEF Parsers, Arity
<1>9. Len(q.ands) = Len(p.ands) - Arity(TopOp(p)) + 1 /\ Arity(TopOp(p)) <= Len(p.ands)
  BY <1>2 DEF Reduced
<1>10. nd[Len(q.ators)] - Len(q.ands) = nd[L] - Len(p.ands)
  <2>1. CASE TopOp(p) \in Binary
    <3>1. Arity(TopOp(p)) = 2
      BY <1>8, <2>1
    <3>2. Len(q.ands) = Len(p.ands) - 2 + 1 /\ nd[L] = nd[L - 1] + 1
      BY <1>7, <1>9, <2>1, <3>1
    <3>3. nd[Len(q.ators)] = nd[L - 1]
      BY <1>4
    <3>4. \A a, n \in Nat : a - (n - 2 + 1) = (a + 1) - n
      OBVIOUS
    <3>5. nd[L - 1] \in Nat /\ Len(p.ands) \in Nat
      BY <1>7, <1>8
    <3>6. nd[L - 1] - (Len(p.ands) - 2 + 1) = (nd[L - 1] + 1) - Len(p.ands)
      BY <3>4, <3>5
    <3> QED BY <3>2, <3>3, <3>6
  <2>2. CASE TopOp(p) \notin Binary
    <3>1. Arity(TopOp(p)) = 1
      BY <1>8, <2>2
    <3>2. Len(q.ands) = Len(p.ands) - 1 + 1 /\ nd[L] = nd[L - 1]
      BY <1>7, <1>9, <2>2, <3>1
    <3> QED BY <1>4, <1>7, <1>8, <3>2
  <2> QED BY <2>1, <2>2
<1>11. /\ TopOp(p) = "(" => nb[Len(q.ators)] = nb[L] - 1
       /\ TopOp(p) # "(" => nb[Len(q.ators)] = nb[L]
  <2>1. nb[Len(q.ators)] = nb[L - 1]
    BY <1>4
  <2> HIDE DEF L
  <2>2. /\ nb[L] \in Nat /\ nb[L - 1] \in Nat
        /\ TopOp(p) = "(" => nb[L] = nb[L - 1] + 1
        /\ TopOp(p) # "(" => nb[L] = nb[L - 1]
    BY <1>7
  <2>3. \A a, b \in Nat : a = b + 1 => b = a - 1
    OBVIOUS
  <2> QED BY <2>1, <2>2, <2>3
<1>12. Len(q.ands) >= 1
  <2>1. \A n, a \in Nat : a <= n => n - a + 1 >= 1
    OBVIOUS
  <2>2. Arity(TopOp(p)) \in Nat
    BY <1>8
  <2> QED BY <1>8, <1>9, <2>1, <2>2
<1> QED BY <1>2, <1>3, <1>4, <1>6, <1>10, <1>11, <1>12 DEF Balanced

(* Operands are missing: n more than are there will be wanted in vain.      *)
Lacks(p, nd, n) == Len(p.ands) < nd[Len(p.ators)] + n

(* A reduction fails where operands are missing or a stack is full.          *)
Excused(p, nd, err) == err \in {"none", "operand stack overflow"} \/ Lacks(p, nd, 1)

LEMMA ReduceExcused ==
  ASSUME NEW p, NEW nd, NEW nb, Stacked(p, nd, nb), p.err = "none", TopOp(p) # "sentinel"
  PROVE  Excused(p, nd, Reduce(p).err)
<1> DEFINE L == Len(p.ators)
           n == Len(p.ands)
           c == nd[L]
<1>1. p \in Parsers /\ L \in Nat /\ L >= 1 /\ n \in Nat
  BY DEF Stacked, Parsers
<1>2. L >= 2
  BY <1>1 DEF Stacked, TopOp
<1>3. Reduce(p).err \in {"none", "operand stack overflow"} \/ n < Arity(TopOp(p))
  BY <1>1, ReduceIs
<1>4. c \in Nat /\ (TopOp(p) \in Binary => c >= 1)
  <2>1. L \in 2 .. L
    BY <1>1, <1>2
  <2>2. Counts(p.ators, nd, Binary)
    BY DEF Stacked
  <2>3. /\ nd[L] \in Nat /\ nd[L - 1] \in Nat
        /\ TopOp(p) \in Binary => nd[L] = nd[L - 1] + 1
    BY <1>1, <2>1, <2>2, CountsAt DEF TopOp
  <2> QED BY <2>3
<1>5. Arity(TopOp(p)) = IF TopOp(p) \in Binary THEN 2 ELSE 1
  BY DEF Arity
<1> HIDE DEF L, n, c
<1>6. n < Arity(TopOp(p)) => n < c + 1
  BY <1>1, <1>4, <1>5
<1> QED BY <1>3, <1>6 DEF Excused, Lacks, L, n, c

-----------------------------------------------------------------------------
(* evaluntil: what holds before the reductions and is kept by each holds    *)
(* after them, when nothing is left to reduce.                             *)
Turned(V, pri) ==
    \A s \in V :
       /\ Round(s, pri) \in V
       /\ Len(s.parser.ators) \in Nat
       /\ s.parser.err = "none" => Len(s.parser.ators) # 0
       /\ \/ Round(s, pri).over \/ Round(s, pri).parser.err # "none"
          \/ /\ ~ s.over /\ s.parser.err = "none"
             /\ Len(Round(s, pri).parser.ators) = Len(s.parser.ators) - 1
       /\ s.over \/ s.parser.err # "none" =>
             Round(s, pri).over \/ Round(s, pri).parser.err # "none"

LEMMA Evaluated ==
  ASSUME NEW p, NEW pri, NEW V, [parser |-> p, over |-> FALSE] \in V, Turned(V, pri)
  PROVE  \E s \in V : evaluntil(p, pri) = s.parser /\ (s.over \/ s.parser.err # "none")
<1> DEFINE n == Len(p.ators)
           first == [parser |-> p, over |-> FALSE]
           F == [i \in 1 .. n |-> [s \in V |-> Round(s, pri)]]
           Is(f) == f = [i \in 0 .. n |-> IF i = 0 THEN first ELSE Round(f[i - 1], pri)]
           after == CHOOSE f : Is(f)
<1>1. n \in Nat /\ first.parser = p
  <2>1. first.parser = p
    OBVIOUS
  <2> HIDE DEF first
  <2> QED BY <2>1 DEF Turned, first
<1>2. evaluntil(p, pri) = after[n].parser
  BY DEF evaluntil
<1> HIDE DEF n, first
<1>3. \A i \in 1 .. n : F[i] \in [V -> V] /\ \A s \in V : F[i][s] = Round(s, pri)
  BY DEF Turned
<1> HIDE DEF F
<1>4. PICK g \in [0 .. n -> V] : ByRecursion(g, F, first, n)
  <2>1. first \in V
    BY DEF first
  <2> QED BY <1>1, <1>3, <2>1, RecursionExists
<1>5. g[0] = first /\ \A i \in 1 .. n : g[i - 1] \in V /\ g[i] = Round(g[i - 1], pri)
  <2>1. ASSUME NEW i \in 1 .. n PROVE g[i - 1] \in V /\ g[i] = Round(g[i - 1], pri)
    <3>1. i - 1 \in 0 .. n
      BY <1>1
    <3> QED BY <1>3, <1>4, <3>1 DEF ByRecursion
  <2> QED BY <1>4, <2>1 DEF ByRecursion
<1>6. Is(g)
  BY <1>1, <1>4, <1>5
<1>7. Is(after)
  BY <1>6
<1> HIDE DEF after
<1>8. after[0] = first /\ \A i \in 1 .. n : after[i] = Round(after[i - 1], pri)
  BY <1>1, <1>7
<1> DEFINE P == {i \in 0 .. n : after[i] = g[i]}
           Q == {i \in 0 .. n : \/ g[i].over \/ g[i].parser.err # "none"
                                \/ Len(g[i].parser.ators) = n - i}
<1>9. P = 0 .. n
  <2>1. 0 \in P
    BY <1>1, <1>5, <1>8
  <2>2. \A i \in 1 .. n : i - 1 \in P => i \in P
    BY <1>1, <1>5, <1>8
  <2> HIDE DEF P
  <2> QED BY <1>1, <2>1, <2>2, UpTo DEF P
<1>10. Q = 0 .. n
  <2>1. 0 \in Q
    BY <1>1, <1>5 DEF n
  <2>2. ASSUME NEW i \in 1 .. n, i - 1 \in Q PROVE i \in Q
    <3> DEFINE s == g[i - 1]
    <3>1. s \in V /\ g[i] = Round(s, pri)
      BY <1>5
    <3>2. s.over \/ s.parser.err # "none" \/ Len(s.parser.ators) = n - (i - 1)
      BY <2>2
    <3>3. \/ g[i].over \/ g[i].parser.err # "none"
          \/ /\ ~ s.over /\ s.parser.err = "none"
             /\ Len(g[i].parser.ators) = Len(s.parser.ators) - 1
      BY <3>1 DEF Turned
    <3> HIDE DEF s
    <3>4. n - (i - 1) - 1 = n - i
      BY <1>1
    <3>5. g[i].over \/ g[i].parser.err # "none" \/ Len(g[i].parser.ators) = n - i
      BY <3>2, <3>3, <3>4
    <3>6. i \in 0 .. n
      BY <1>1
    <3> QED BY <3>5, <3>6
  <2>3. Q \in SUBSET (0 .. n)
    OBVIOUS
  <2> HIDE DEF Q
  <2>4. \A i \in 1 .. n : i - 1 \in Q => i \in Q
    BY <2>2
  <2> QED BY <1>1, <2>1, <2>3, <2>4, UpTo
<1>11. n \in 0 .. n
  BY <1>1
<1>12. after[n] = g[n] /\ g[n] \in V
  BY <1>4, <1>9, <1>11
<1>13. g[n].over \/ g[n].parser.err # "none"
  <2>1. g[n].over \/ g[n].parser.err # "none" \/ Len(g[n].parser.ators) = n - n
    BY <1>10, <1>11
  <2>2. Len(g[n].parser.ators) # 0 \/ g[n].parser.err # "none"
    BY <1>12 DEF Turned
  <2> QED BY <1>1, <2>1, <2>2
<1> QED BY <1>2, <1>12, <1>13

Priorities == {"start", ")", "|", "cat", "*", "+", "?"}
Tight(r, pri) == pri = ")" \/ Precedence(TopOp(r)) >= Precedence(pri)

LEMMA Precedences ==
  /\ Precedence("sentinel") = -1 /\ Precedence("start") = 0 /\ Precedence(")") = 1
  /\ Precedence("(") = 2 /\ Precedence("|") = 3 /\ Precedence("cat") = 4
  /\ Precedence("*") = 5 /\ Precedence("+") = 6 /\ Precedence("?") = 7
BY DEF Precedence

LEMMA RoundOver ==
  ASSUME NEW A, NEW s \in [parser : A, over : BOOLEAN]
  PROVE  [s EXCEPT !.over = TRUE] = [parser |-> s.parser, over |-> TRUE]
<1> DEFINE x == [s EXCEPT !.over = TRUE]
           y == [parser |-> s.parser, over |-> TRUE]
<1>1. x \in [parser : A, over : BOOLEAN] /\ x.parser = s.parser /\ x.over = TRUE
  OBVIOUS
<1>2. y \in [parser : A, over : BOOLEAN] /\ y.parser = s.parser /\ y.over = TRUE
  OBVIOUS
<1> HIDE DEF x, y
<1> QED BY <1>1, <1>2

LEMMA RoundIs ==
  ASSUME NEW s \in [parser : Parsers, over : BOOLEAN], NEW pri \in Priorities
  PROVE  /\ s.over \/ s.parser.err # "none" =>
               Round(s, pri) = [parser |-> s.parser, over |-> TRUE]
         /\ Len(s.parser.ators) >= 1 /\ ~ Tight(s.parser, pri) =>
               Round(s, pri) = [parser |-> s.parser, over |-> TRUE]
         /\ Len(s.parser.ators) >= 1 /\ ~ s.over /\ s.parser.err = "none" /\ Tight(s.parser, pri) =>
               Round(s, pri) = [parser |-> Reduce(s.parser), over |-> TopOp(s.parser) = "("]
<1> DEFINE r == s.parser
           op == TopOp(r)
<1>1. r \in Parsers /\ s.over \in BOOLEAN /\ r.ators \in Seq(Ators)
  BY DEF Parsers
<1>2. Last(r.ators).op = op
  BY DEF Last, TopOp
<1>5. ASSUME Len(r.ators) >= 1
      PROVE  Tight(r, pri) <=> ~ (pri # ")" /\ Precedence(op) < Precedence(pri))
  <2>1. op \in {"sentinel", "("} \cup Binary \cup Unary
    <3>1. r.ators[Len(r.ators)] \in Ators
      BY <1>1, <1>5
    <3> QED BY <3>1 DEF Ators, TopOp
  <2>2. Precedence(op) \in Int /\ Precedence(pri) \in Int
    BY <2>1, Precedences DEF Binary, Unary, Priorities
  <2> HIDE DEF op
  <2> QED BY <2>2 DEF Tight, op
<1>6. Round(s, pri) = IF s.over \/ r.err # "none" \/ (pri # ")" /\ Precedence(op) < Precedence(pri))
                      THEN [s EXCEPT !.over = TRUE]
                      ELSE [parser |-> Reduce(r), over |-> op = "("]
  BY <1>2 DEF Round
<1>7. [s EXCEPT !.over = TRUE] = [parser |-> r, over |-> TRUE]
  BY RoundOver
<1> HIDE DEF r, op
<1> QED BY <1>1, <1>5, <1>6, <1>7 DEF r, op

(* What is known of the parser during the reductions: it is in W, and after  *)
(* a left bracket has been reduced in C.                                    *)
Evaluating(s, p, nd, nb, pri, W, C) ==
    LET r == s.parser
    IN  /\ Else(p, r) /\ Excused(p, nd, r.err)
        /\ r.err = "none" =>
             /\ Stacked(r, nd, nb)
             /\ nd[Len(r.ators)] - Len(r.ands) = nd[Len(p.ators)] - Len(p.ands)
             /\ r = p \/ Len(r.ands) >= 1
             /\ IF s.over /\ pri = ")"
                THEN r \in C /\ nb[Len(r.ators)] = nb[Len(p.ators)] - 1
                ELSE r \in W /\ nb[Len(r.ators)] = nb[Len(p.ators)]
             /\ s.over /\ pri # ")" => ~ Tight(r, pri)

Keeps(nd, nb, pri, W, C) ==
    \A r \in W :
       /\ r.err = "none" /\ Stacked(r, nd, nb) /\ TopOp(r) # "sentinel" /\ Tight(r, pri)
       /\ Reduce(r).err = "none"
       => IF TopOp(r) = "(" THEN pri = ")" => Reduce(r) \in C ELSE Reduce(r) \in W

(* A right bracket has its left one, and at the end none is open.            *)
Matched(p, nb, pri) ==
    /\ pri = ")" => nb[Len(p.ators)] > 0
    /\ pri = "start" => nb[Len(p.ators)] = 0

LEMMA Evaluation ==
  ASSUME NEW p, NEW nd, NEW nb, NEW W, NEW C, NEW pri \in Priorities,
         Stacked(p, nd, nb), p.err = "none", p \in W, Keeps(nd, nb, pri, W, C),
         Matched(p, nb, pri), NEW q, q = evaluntil(p, pri)
  PROVE  /\ q \in Parsers
         /\ \E s : s.parser = q /\ s.over = TRUE /\ Evaluating(s, p, nd, nb, pri, W, C)
<1> DEFINE V == {s \in [parser : Parsers, over : BOOLEAN] : Evaluating(s, p, nd, nb, pri, W, C)}
           first == [parser |-> p, over |-> FALSE]
<1>1. first \in V
  <2>1. p \in Parsers /\ first.parser = p /\ first.over = FALSE
    BY DEF Stacked
  <2>2. Else(p, p) /\ Excused(p, nd, p.err)
    BY DEF Else, Excused
  <2> HIDE DEF first
  <2>3. Evaluating(first, p, nd, nb, pri, W, C)
    BY <2>1, <2>2 DEF Evaluating
  <2> QED BY <2>1, <2>3 DEF first
<1>2. Turned(V, pri)
  <2> SUFFICES ASSUME NEW s \in V
               PROVE  /\ Round(s, pri) \in V
                      /\ Len(s.parser.ators) \in Nat
                      /\ s.parser.err = "none" => Len(s.parser.ators) # 0
                      /\ \/ Round(s, pri).over \/ Round(s, pri).parser.err # "none"
                         \/ /\ ~ s.over /\ s.parser.err = "none"
                            /\ Len(Round(s, pri).parser.ators) = Len(s.parser.ators) - 1
                      /\ s.over \/ s.parser.err # "none" =>
                            Round(s, pri).over \/ Round(s, pri).parser.err # "none"
    BY DEF Turned
  <2> DEFINE r == s.parser
             z == Round(s, pri)
  <2>1. /\ s \in [parser : Parsers, over : BOOLEAN] /\ r \in Parsers /\ Len(r.ators) \in Nat
        /\ Evaluating(s, p, nd, nb, pri, W, C) /\ s.over \in BOOLEAN
    BY DEF Parsers
  <2> HIDE DEF V
  <2>2. /\ Else(p, r) /\ Excused(p, nd, r.err)
        /\ r.err = "none" =>
             /\ Stacked(r, nd, nb) /\ Len(r.ators) >= 1
             /\ nd[Len(r.ators)] - Len(r.ands) = nd[Len(p.ators)] - Len(p.ands)
             /\ r = p \/ Len(r.ands) >= 1
             /\ ~ (s.over /\ pri = ")") => r \in W /\ nb[Len(r.ators)] = nb[Len(p.ators)]
    BY <2>1 DEF Evaluating, Stacked
  <2> HIDE DEF r, z
  <2>3. CASE s.over \/ r.err # "none"
    <3>1. z = [parser |-> r, over |-> TRUE]
      BY <2>1, <2>3, RoundIs DEF r, z
    <3>2. z.parser = r /\ z.over = TRUE /\ z \in [parser : Parsers, over : BOOLEAN]
      BY <2>1, <3>1
    <3>3. Evaluating(z, p, nd, nb, pri, W, C)
      <4>1. CASE r.err # "none"
        BY <2>2, <3>2, <4>1 DEF Evaluating
      <4>2. CASE s.over
        BY <2>1, <3>2, <4>2 DEF Evaluating, r
      <4> QED BY <2>3, <4>1, <4>2
    <3> QED BY <2>1, <2>2, <2>3, <3>2, <3>3 DEF V, z, r
  <2>4. CASE ~ s.over /\ r.err = "none" /\ ~ Tight(r, pri)
    <3>1. z = [parser |-> r, over |-> TRUE]
      BY <2>1, <2>2, <2>4, RoundIs DEF r, z
    <3>2. z.parser = r /\ z.over = TRUE /\ z \in [parser : Parsers, over : BOOLEAN]
      BY <2>1, <3>1
    <3>3. pri # ")"
      BY <2>4 DEF Tight
    <3>4. Evaluating(z, p, nd, nb, pri, W, C)
      BY <2>2, <2>4, <3>2, <3>3 DEF Evaluating
    <3> QED BY <2>1, <2>2, <2>4, <3>2, <3>4 DEF V, z, r
  <2>5. CASE ~ s.over /\ r.err = "none" /\ Tight(r, pri)
    <3> DEFINE op == TopOp(r)
               y == Reduce(r)
    <3> HIDE DEF op, y
    <3>1. z = [parser |-> y, over |-> op = "("]
      BY <2>1, <2>2, <2>5, RoundIs DEF r, z, op, y
    <3>2. z.parser = y /\ z.over = (op = "(")
      BY <3>1
    <3>3. r \in W /\ nb[Len(r.ators)] = nb[Len(p.ators)] /\ Stacked(r, nd, nb)
      BY <2>2, <2>5
    <3>4. op \in {"sentinel", "("} \cup Binary \cup Unary
      <4>1. r.ators[Len(r.ators)] \in Ators
        BY <2>1, <2>2, <2>5 DEF Parsers
      <4> QED BY <4>1 DEF Ators, TopOp, op
    <3>5. op # "sentinel"
      <4>1. CASE pri = ")"
        <5>1. nb[Len(r.ators)] > 0
          BY <3>3, <4>1 DEF Matched
        <5> QED BY <3>3, <5>1, NotTheSentinel DEF op
      <4>2. CASE pri # ")"
        <5>1. Precedence(op) >= Precedence(pri)
          BY <2>5, <4>2 DEF Tight, op
        <5> QED BY <5>1, Precedences DEF Priorities
      <4> QED BY <4>1, <4>2
    <3>6. y \in Parsers /\ Else(r, y)
      BY <2>1, <2>2, <2>5, <3>5, ReduceIs DEF y, op
    <3>7. Else(p, y) /\ Excused(p, nd, y.err)
      <4>1. Excused(r, nd, y.err)
        <5>1. TopOp(r) # "sentinel" /\ y = Reduce(r) /\ r.err = "none"
          BY <2>5, <3>5 DEF op, y
        <5> QED BY <3>3, <5>1, ReduceExcused
      <4>2. Lacks(r, nd, 1) => Lacks(p, nd, 1)
        <5> DEFINE a == nd[Len(r.ators)]
                   b == nd[Len(p.ators)]
                   c == Len(r.ands)
                   e == Len(p.ands)
        <5>1. a \in Nat /\ b \in Nat /\ c \in Nat /\ e \in Nat
          <6>1. nd \in [Nat -> Nat] /\ r \in Parsers /\ p \in Parsers
            BY <3>3 DEF Stacked, Counts
          <6>2. r.ators \in Seq(Ators) /\ p.ators \in Seq(Ators) /\ r.ands \in Seq(Parts) /\ p.ands \in Seq(Parts)
            BY <6>1 DEF Parsers
          <6>3. Len(r.ators) \in Nat /\ Len(p.ators) \in Nat /\ Len(r.ands) \in Nat /\ Len(p.ands) \in Nat
            BY ONLY <6>2
          <6> QED BY ONLY <6>1, <6>3
        <5>2. a - c = b - e
          BY <2>2, <2>5
        <5> HIDE DEF a, b, c, e
        <5>3. c < a + 1 => e < b + 1
          BY <5>1, <5>2
        <5> QED BY <5>3 DEF Lacks, a, b, c, e
      <4> QED BY <2>2, <3>6, <4>1, <4>2 DEF Else, Excused
    <3>8. z \in [parser : Parsers, over : BOOLEAN]
      BY <3>1, <3>6
    <3>9. ASSUME y.err = "none"
          PROVE  /\ Evaluating(z, p, nd, nb, pri, W, C)
                 /\ Len(y.ators) = Len(r.ators) - 1
      <4>1. /\ Stacked(y, nd, nb) /\ Len(r.ators) >= 2
            /\ nd[Len(y.ators)] - Len(y.ands) = nd[Len(r.ators)] - Len(r.ands)
            /\ op = "(" => nb[Len(y.ators)] = nb[Len(r.ators)] - 1
            /\ op # "(" => nb[Len(y.ators)] = nb[Len(r.ators)]
            /\ Len(y.ands) >= 1 /\ Len(y.ators) = Len(r.ators) - 1
        <5>1. y = Reduce(r) /\ y.err = "none" /\ r.err = "none" /\ TopOp(r) # "sentinel"
          BY <2>5, <3>5, <3>9 DEF y, op
        <5>2. Stacked(r, nd, nb)
          BY <3>3
        <5>3. Stacked(y, nd, nb) /\ Len(r.ators) >= 2 /\ Balanced(r, y, nd, nb)
          BY <5>1, <5>2, ReduceCounts
        <5> QED BY <5>3 DEF Balanced, op
      <4>2. nb[Len(r.ators)] \in Nat /\ nb[Len(y.ators)] \in Nat
        <5>1. Len(r.ators) \in Nat /\ Len(y.ators) \in Nat
          BY <2>1, <4>1
        <5> QED BY <3>3, <5>1 DEF Stacked, Counts
      <4>3. op = "(" => pri = ")"
        <5> SUFFICES ASSUME op = "(", pri # ")" PROVE FALSE
          OBVIOUS
        <5>1. 2 >= Precedence(pri)
          BY <2>5, Precedences DEF Tight, op
        <5>2. pri = "start"
          BY <5>1, Precedences DEF Priorities
        <5>3. nb[Len(y.ators)] = 0 - 1
          BY <3>3, <4>1, <5>2 DEF Matched
        <5> QED BY <4>2, <5>3
      <4>4. IF op = "(" THEN y \in C ELSE y \in W
        BY <2>5, <3>3, <3>5, <3>9, <4>3 DEF Keeps, op, y
      <4>5. CASE op = "("
        <5>1. z.over = TRUE /\ pri = ")" /\ nb[Len(y.ators)] = nb[Len(p.ators)] - 1
          BY <3>2, <3>3, <4>1, <4>3, <4>5
        <5>2. y \in C
          BY <4>4, <4>5
        <5>3. nd[Len(y.ators)] - Len(y.ands) = nd[Len(p.ators)] - Len(p.ands)
          BY <2>2, <2>5, <4>1
        <5>4. Evaluating(z, p, nd, nb, pri, W, C)
          BY <3>2, <3>7, <4>1, <5>1, <5>2, <5>3 DEF Evaluating
        <5> QED BY <4>1, <5>4
      <4>6. CASE op # "("
        <5>1. z.over = FALSE /\ nb[Len(y.ators)] = nb[Len(p.ators)]
          BY <3>2, <3>3, <4>1, <4>6
        <5>2. y \in W /\ nb[Len(y.ators)] = nb[Len(p.ators)]
          BY <3>3, <4>2, <4>4, <4>6, <5>1
        <5>3. nd[Len(y.ators)] - Len(y.ands) = nd[Len(p.ators)] - Len(p.ands)
          BY <2>2, <2>5, <4>1
        <5>4. Evaluating(z, p, nd, nb, pri, W, C)
          BY <3>2, <3>7, <4>1, <5>1, <5>2, <5>3 DEF Evaluating
        <5> QED BY <4>1, <5>4
      <4> QED BY <4>5, <4>6
    <3>10. ASSUME y.err # "none" PROVE Evaluating(z, p, nd, nb, pri, W, C)
      BY <3>2, <3>7, <3>10 DEF Evaluating
    <3>11. z \in V
      BY <3>8, <3>9, <3>10 DEF V
    <3> QED BY <2>1, <2>2, <2>5, <3>2, <3>9, <3>11 DEF z, r
  <2> QED BY <2>3, <2>4, <2>5 DEF z, r
<1>3. PICK s \in V : q = s.parser /\ (s.over \/ s.parser.err # "none")
  <2>1. first = [parser |-> p, over |-> FALSE]
    OBVIOUS
  <2> HIDE DEF V, first
  <2> QED BY <1>1, <1>2, <2>1, Evaluated
<1>4. s \in [parser : Parsers, over : BOOLEAN] /\ Evaluating(s, p, nd, nb, pri, W, C)
  OBVIOUS
<1> HIDE DEF V, first
<1>5. q \in Parsers /\ s.over \in BOOLEAN
  BY <1>3, <1>4
<1>6. CASE s.over
  BY <1>3, <1>4, <1>5, <1>6
<1>7. CASE s.parser.err # "none"
  <2> DEFINE x == [parser |-> q, over |-> TRUE]
  <2>1. x.parser = q /\ x.over = TRUE
    OBVIOUS
  <2> HIDE DEF x
  <2>2. Else(p, q) /\ Excused(p, nd, q.err)
    BY <1>3, <1>4 DEF Evaluating
  <2>3. Evaluating(x, p, nd, nb, pri, W, C)
    BY <1>3, <1>7, <2>1, <2>2 DEF Evaluating
  <2> QED BY <1>5, <2>1, <2>3
<1> QED BY <1>3, <1>6, <1>7

-----------------------------------------------------------------------------
(* What an operator makes of its operands                                  *)

LEMMA ThroughRelates ==
  ASSUME NEW prog, NEW t, NEW x
  PROVE  Through(prog, t, x) \in SUBSET (Places(t) \X Places(t))
BY DEF Through

LEMMA GroupIsCompiled ==
  ASSUME NEW prog, NEW t \in Seq(Nat), NEW lo, NEW y, LastOperand(prog, lo, y),
         NEW subid \in 1 .. NSubexp - 1, NEW x, NEW made, made = Applied(prog, "(", subid, x, y)
  PROVE  Becomes(prog, made.prog, t, lo, made.node, Through(prog, t, y))
<1> DEFINE N == Len(prog)
           R == Through(prog, t, y)
<1>0. prog \in Seq(Good) /\ lo \in Nat \ {0} /\ Fragment(prog, lo, N, y)
  BY DEF LastOperand
<1>1. PICK i, j : i = N + 1 /\ j = i + 1
  OBVIOUS
<1>2. N \in Nat /\ i \in Nat /\ i > N /\ j \in Nat
  BY <1>0, <1>1
<1>3. PICK z : z = [first |-> j, last |-> i]
  OBVIOUS
<1>4. PICK a, b : a = Bracket(")", subid, 0) /\ b = Bracket("(", subid, y.first)
  OBVIOUS
<1>5. PICK new : new = Link(prog, y, i) \o <<a, b>>
  OBVIOUS
<1>6. made.prog = new /\ made.node = z
  BY <1>1, <1>3, <1>4, <1>5 DEF Applied, Made, Node
<1>7. y.first \in Nat
  BY <1>0, <1>2, FragmentSize
<1>8. /\ a \in Good /\ a.type = ")" /\ a.next = 0
      /\ b \in Good /\ b.type = "(" /\ b.next = y.first
  BY <1>4, <1>7, GoodMade DEF Bracket, Inst
<1>9. Follows(prog, new, y, i, <<a, b>>)
  BY <1>2, <1>5 DEF Follows
<1>10. /\ new \in Seq(Good) /\ new \in Seq(Instructions)
       /\ Len(new) = N + 2 /\ lo <= N
       /\ \A p \in 1 .. lo - 1 : new[p] = prog[p]
       /\ new[N + 1] = a /\ new[N + 2] = b
       /\ LeadsOut(new, t, lo, N, y, i, R)
  BY <1>8, <1>9, TwoAdded
<1>11. R \in SUBSET (Places(t) \X Places(t))
  BY ThroughRelates
<1>12. z \in [first : Nat, last : Nat]
  BY <1>2, <1>3
<1> HIDE DEF R, N
<1>13. GroupLaid(new, lo, N, i, j, y, z) /\ Len(new) = j /\ lo <= j
  <2>1. j = N + 2
    BY <1>1, <1>2
  <2> QED BY <1>0, <1>1, <1>2, <1>3, <1>8, <1>10, <2>1 DEF GroupLaid
<1>14. Fragment(new, lo, j, z) /\ Through(new, t, z) = R
  <2>1. LeadsOut(new, t, lo, N, y, i, R)
    BY <1>10
  <2> QED BY ONLY <1>11, <1>13, <2>1, GroupLeads
<1>15. /\ new \in Seq(Good) /\ lo <= Len(new) /\ \A p \in 1 .. lo - 1 : new[p] = prog[p]
       /\ Fragment(new, lo, Len(new), z)
  BY <1>10, <1>13, <1>14
<1>16. Becomes(new, new, t, lo, z, R) /\ Becomes(prog, new, t, lo, z, R)
  BY <1>12, <1>14, <1>15, Zenon DEF Becomes
<1> QED BY <1>6, <1>16 DEF R

LEMMA OptionIsCompiled ==
  ASSUME NEW prog, NEW t \in Seq(Nat), NEW lo, NEW y, LastOperand(prog, lo, y),
         NEW subid, NEW x, NEW made, made = Applied(prog, "?", subid, x, y)
  PROVE  Becomes(prog, made.prog, t, lo, made.node, Repeated("?", Through(prog, t, y), t))
<1> DEFINE N == Len(prog)
           R == Through(prog, t, y)
<1>0. prog \in Seq(Good) /\ lo \in Nat \ {0} /\ Fragment(prog, lo, N, y)
  BY DEF LastOperand
<1>1. PICK i, j : i = N + 1 /\ j = i + 1
  OBVIOUS
<1>2. N \in Nat /\ i \in Nat /\ j > N /\ j \in Nat
  BY <1>0, <1>1
<1>3. PICK z : z = [first |-> i, last |-> j]
  OBVIOUS
<1>4. PICK a, b : a = Or(y.first, j) /\ b = newinst("nop")
  OBVIOUS
<1>5. PICK new : new = Link(prog, y, j) \o <<a, b>>
  OBVIOUS
<1>6. made.prog = new /\ made.node = z
  BY <1>1, <1>3, <1>4, <1>5 DEF Applied, Made, Node
<1>7. y.first \in Nat
  BY <1>0, <1>2, FragmentSize
<1>8. /\ a \in Good /\ a.type = "or" /\ a.right = y.first /\ a.next = j
      /\ b \in Good /\ b.type = "nop" /\ b.next = 0
  BY <1>2, <1>4, <1>7, GoodMade DEF Or, newinst, Inst
<1> HIDE DEF N, R
<1>8a. a \in Good /\ b \in Good
  BY <1>8
<1>9. Follows(prog, new, y, j, <<a, b>>)
  BY <1>2, <1>5 DEF Follows, N
<1>10. /\ new \in Seq(Good) /\ new \in Seq(Instructions)
       /\ Len(new) = N + 2 /\ lo <= N
       /\ \A p \in 1 .. lo - 1 : new[p] = prog[p]
       /\ new[N + 1] = a /\ new[N + 2] = b
       /\ LeadsOut(new, t, lo, N, y, j, R)
  BY <1>8a, <1>9, TwoAdded DEF N, R
<1>11. R \in SUBSET (Places(t) \X Places(t))
  BY ThroughRelates DEF R
<1>12. z \in [first : Nat, last : Nat]
  BY <1>2, <1>3
<1>13. OptionLaid(new, lo, N, i, j, y, z) /\ Len(new) = j /\ lo <= j
  <2>1. j = N + 2
    BY <1>1, <1>2
  <2> QED BY <1>0, <1>1, <1>2, <1>3, <1>8, <1>10, <2>1 DEF OptionLaid
<1>14. Fragment(new, lo, j, z) /\ Through(new, t, z) = Repeated("?", R, t)
  BY <1>10, <1>11, <1>13, OptionLeads
<1> QED BY <1>6, <1>10, <1>12, <1>13, <1>14 DEF Becomes, R

LEMMA LoopIsCompiled ==
  ASSUME NEW prog, NEW t \in Seq(Nat), NEW lo, NEW y, LastOperand(prog, lo, y),
         NEW op \in {"*", "+"}, NEW subid, NEW x, NEW made, made = Applied(prog, op, subid, x, y)
  PROVE  Becomes(prog, made.prog, t, lo, made.node, Repeated(op, Through(prog, t, y), t))
<1> DEFINE N == Len(prog)
           R == Through(prog, t, y)
<1>0. prog \in Seq(Good) /\ lo \in Nat \ {0} /\ Fragment(prog, lo, N, y)
  BY DEF LastOperand
<1>1. PICK i : i = N + 1
  OBVIOUS
<1>2. N \in Nat /\ i \in Nat /\ i > N
  BY <1>0, <1>1
<1>3. PICK z : z = [first |-> IF op = "*" THEN i ELSE y.first, last |-> i]
  OBVIOUS
<1>4. PICK a : a = Or(y.first, 0)
  OBVIOUS
<1>5. PICK new : new = Link(prog, y, i) \o <<a>>
  OBVIOUS
<1>6. made.prog = new /\ made.node = z
  BY <1>1, <1>3, <1>4, <1>5 DEF Applied, Made, Node
<1>7. y.first \in Nat
  BY <1>0, <1>2, FragmentSize
<1>8. a \in Good /\ a.type = "or" /\ a.right = y.first /\ a.next = 0
  BY <1>2, <1>4, <1>7, GoodMade DEF Or, Inst
<1>9. Follows(prog, new, y, i, <<a>>)
  BY <1>2, <1>5 DEF Follows
<1>10. /\ new \in Seq(Good) /\ new \in Seq(Instructions)
       /\ Len(new) = N + 1 /\ lo <= N
       /\ \A p \in 1 .. lo - 1 : new[p] = prog[p]
       /\ new[N + 1] = a
       /\ LeadsOut(new, t, lo, N, y, i, R)
  BY <1>8, <1>9, OneAdded
<1>11. R \in SUBSET (Places(t) \X Places(t))
  BY ThroughRelates
<1>12. z \in [first : Nat, last : Nat]
  BY <1>2, <1>3, <1>7
<1> HIDE DEF R, N
<1>13. LoopLaid(new, lo, N, i, y) /\ Len(new) = i /\ lo <= i
  BY <1>0, <1>1, <1>2, <1>3, <1>8, <1>10 DEF LoopLaid
<1>14. Fragment(new, lo, i, z) /\ Through(new, t, z) = Repeated(op, R, t)
  <2>0. LeadsOut(new, t, lo, N, y, i, R) /\ LoopLaid(new, lo, N, i, y)
    BY <1>10, <1>13
  <2>1. CASE op = "*"
    <3>1. z = [first |-> i, last |-> i]
      BY <1>3, <2>1
    <3>2. Fragment(new, lo, i, z) /\ Through(new, t, z) = Repeated("*", R, t)
      BY <1>11, <2>0, <3>1, StarLeads
    <3> QED BY <2>1, <3>2
  <2>2. CASE op = "+"
    <3>1. z = [first |-> y.first, last |-> i]
      BY <1>3, <2>2
    <3>2. Fragment(new, lo, i, z) /\ Through(new, t, z) = Repeated("+", R, t)
      BY <1>11, <2>0, <3>1, PlusLeads
    <3> QED BY <2>2, <3>2
  <2> QED BY <2>1, <2>2
<1> QED BY <1>6, <1>10, <1>12, <1>13, <1>14 DEF Becomes, R

LEMMA UnaryIsCompiled ==
  ASSUME NEW prog, NEW t \in Seq(Nat), NEW lo, NEW y, LastOperand(prog, lo, y),
         NEW op \in Unary, NEW subid, NEW x, NEW made, made = Applied(prog, op, subid, x, y)
  PROVE  Becomes(prog, made.prog, t, lo, made.node, Repeated(op, Through(prog, t, y), t))
<1>1. op \in {"*", "+"} \/ op = "?"
  BY DEF Unary
<1> QED BY <1>1, OptionIsCompiled, LoopIsCompiled

(* The two last operands of a program.                                      *)
LastOperands(prog, lo, mid, x, y) ==
    /\ prog \in Seq(Good) /\ lo \in Nat \ {0} /\ mid \in Nat /\ mid < Len(prog)
    /\ x \in Parts /\ y \in Parts
    /\ Fragment(prog, lo, mid, x) /\ Fragment(prog, mid + 1, Len(prog), y)

LEMMA BinaryIsCompiled ==
  ASSUME NEW prog, NEW t \in Seq(Nat), NEW lo, NEW mid, NEW x, NEW y,
         LastOperands(prog, lo, mid, x, y),
         NEW op \in Binary, NEW subid, NEW made, made = Applied(prog, op, subid, x, y)
  PROVE  Becomes(prog, made.prog, t, lo, made.node,
                 IF op = "|" THEN Through(prog, t, x) \cup Through(prog, t, y)
                 ELSE Joined(Through(prog, t, x), Through(prog, t, y)))
<1>0. /\ prog \in Seq(Good) /\ lo \in Nat \ {0} /\ mid \in Nat /\ mid < Len(prog)
      /\ x \in [first : Nat, last : Nat] /\ y \in [first : Nat, last : Nat]
      /\ Fragment(prog, lo, mid, x) /\ Fragment(prog, mid + 1, Len(prog), y)
  BY DEF LastOperands, Parts
<1>1. CASE op = "|"
  <2>1. PICK i, new : i = Len(prog) + 1 /\ new = Chosen(prog, x, y, i)
    OBVIOUS
  <2>2. made.prog = new /\ made.node = [first |-> i + 1, last |-> i]
    BY <1>1, <2>1 DEF Applied, Made, Node, Chosen, BothLinked
  <2>3. Becomes(prog, new, t, lo, [first |-> i + 1, last |-> i],
                Through(prog, t, x) \cup Through(prog, t, y))
    BY <1>0, <2>1, ChoiceIsCompiled
  <2> QED BY <1>1, <2>2, <2>3
<1>2. CASE op = "cat"
  <2>1. PICK new, z : new = Link(prog, x, y.first) /\ z = [first |-> x.first, last |-> y.last]
    OBVIOUS
  <2>2. made.prog = new /\ made.node = z
    BY <1>2, <2>1 DEF Applied, Made, Node
  <2>3. Becomes(prog, new, t, lo, z, Joined(Through(prog, t, x), Through(prog, t, y)))
    BY <1>0, <2>1, BranchIsCompiled
  <2> QED BY <1>2, <2>2, <2>3
<1> QED BY <1>1, <1>2 DEF Binary

-----------------------------------------------------------------------------
(* Repetitions                                                             *)
(* The operators of one operand may be applied in any order: any two of     *)
(* them make what the star makes.                                           *)

Transitive(D, T) == \A a, b, c \in D : <<a, b>> \in T /\ <<b, c>> \in T => <<a, c>> \in T
Starred(R, t) == Closure(R, t) \cup Empties(t)

LEMMA ClosureSpans ==
  ASSUME NEW t, NEW R
  PROVE  Closure(R, t) \in SUBSET (Places(t) \X Places(t))
BY DEF Closure

LEMMA EmptySpans ==
  ASSUME NEW t
  PROVE  /\ Empties(t) \in SUBSET (Places(t) \X Places(t))
         /\ \A a, b \in Places(t) : <<a, b>> \in Empties(t) <=> a = b
BY DEF Empties

LEMMA InClosure ==
  ASSUME NEW t, NEW R \in SUBSET (Places(t) \X Places(t)), NEW a \in Places(t), NEW b \in Places(t)
  PROVE  <<a, b>> \in Closure(R, t) <=>
         \A S \in SUBSET Places(t) : ClosedFrom(R, Places(t), a, S) => b \in S
BY ClosureIs

LEMMA ClosureContains ==
  ASSUME NEW t, NEW R \in SUBSET (Places(t) \X Places(t))
  PROVE  R \subseteq Closure(R, t)
<1> DEFINE D == Places(t)
<1> SUFFICES ASSUME NEW a \in D, NEW b \in D, <<a, b>> \in R PROVE <<a, b>> \in Closure(R, t)
  OBVIOUS
<1>1. \A S \in SUBSET D : ClosedFrom(R, D, a, S) => b \in S
  BY DEF ClosedFrom
<1> QED BY <1>1, InClosure

LEMMA ClosureIsTransitive ==
  ASSUME NEW t, NEW R \in SUBSET (Places(t) \X Places(t))
  PROVE  Transitive(Places(t), Closure(R, t))
<1> DEFINE D == Places(t)
           C == Closure(R, t)
<1> SUFFICES ASSUME NEW a \in D, NEW b \in D, NEW c \in D, <<a, b>> \in C, <<b, c>> \in C
             PROVE  <<a, c>> \in C
  BY DEF Transitive
<1>1. ASSUME NEW S \in SUBSET D, ClosedFrom(R, D, a, S) PROVE c \in S
  <2>1. b \in S
    BY <1>1, InClosure
  <2>2. ClosedFrom(R, D, b, S)
    BY <1>1, <2>1 DEF ClosedFrom
  <2> QED BY <2>2, InClosure
<1> QED BY <1>1, InClosure

LEMMA ClosureIsLeast ==
  ASSUME NEW t, NEW R \in SUBSET (Places(t) \X Places(t)),
         NEW T \in SUBSET (Places(t) \X Places(t)), R \subseteq T, Transitive(Places(t), T)
  PROVE  Closure(R, t) \subseteq T
<1> DEFINE D == Places(t)
<1> SUFFICES ASSUME NEW a \in D, NEW b \in D, <<a, b>> \in Closure(R, t) PROVE <<a, b>> \in T
  BY ClosureSpans
<1> DEFINE S == {c \in D : <<a, c>> \in T}
<1>1. S \in SUBSET D /\ \A c \in D : c \in S <=> <<a, c>> \in T
  OBVIOUS
<1> HIDE DEF S
<1>2. ClosedFrom(R, D, a, S)
  BY <1>1 DEF ClosedFrom, Transitive
<1>3. b \in S
  BY <1>1, <1>2, InClosure
<1> QED BY <1>1, <1>3

LEMMA StarIsTransitive ==
  ASSUME NEW t, NEW R \in SUBSET (Places(t) \X Places(t))
  PROVE  /\ Starred(R, t) \in SUBSET (Places(t) \X Places(t))
         /\ Transitive(Places(t), Starred(R, t))
BY ClosureSpans, EmptySpans, ClosureIsTransitive DEF Starred, Transitive

LEMMA ClosureOfTransitive ==
  ASSUME NEW t, NEW T \in SUBSET (Places(t) \X Places(t)), Transitive(Places(t), T)
  PROVE  Closure(T, t) = T
BY ClosureContains, ClosureIsLeast

LEMMA ClosureWithEmpties ==
  ASSUME NEW t, NEW R \in SUBSET (Places(t) \X Places(t))
  PROVE  Closure(R \cup Empties(t), t) = Starred(R, t)
<1> DEFINE E == Empties(t)
           Q == R \cup E
           S == Starred(R, t)
<1>1. Q \in SUBSET (Places(t) \X Places(t)) /\ R \subseteq Q /\ E \subseteq Q
  BY EmptySpans
<1>2. S \in SUBSET (Places(t) \X Places(t)) /\ Transitive(Places(t), S)
  BY StarIsTransitive
<1>3. Q \subseteq S
  BY ClosureContains DEF Starred
<1> HIDE DEF Q, E, S
<1>4. Closure(Q, t) \subseteq S
  BY <1>1, <1>2, <1>3, ClosureIsLeast
<1>5. Q \subseteq Closure(Q, t) /\ Transitive(Places(t), Closure(Q, t))
      /\ Closure(Q, t) \in SUBSET (Places(t) \X Places(t))
  BY <1>1, ClosureContains, ClosureIsTransitive, ClosureSpans
<1>6. Closure(R, t) \subseteq Closure(Q, t)
  BY <1>1, <1>5, ClosureIsLeast
<1> QED BY <1>1, <1>4, <1>5, <1>6 DEF Starred, S, E, Q

LEMMA RepeatedIs ==
  ASSUME NEW t, NEW R
  PROVE  /\ Repeated("*", R, t) = Starred(R, t) /\ Repeated("+", R, t) = Closure(R, t)
         /\ Repeated("?", R, t) = R \cup Empties(t)
BY DEF Repeated, Starred

LEMMA RepeatedSpans ==
  ASSUME NEW t, NEW R \in SUBSET (Places(t) \X Places(t)), NEW op \in Unary
  PROVE  Repeated(op, R, t) \in SUBSET (Places(t) \X Places(t))
BY RepeatedIs, StarIsTransitive, ClosureSpans, EmptySpans DEF Unary

LEMMA RepeatedTwice ==
  ASSUME NEW t, NEW R \in SUBSET (Places(t) \X Places(t)),
         NEW op \in Unary, NEW op2 \in Unary, op # op2
  PROVE  Repeated(op, Repeated(op2, R, t), t) = Starred(R, t)
<1> DEFINE D == Places(t)
           C == Closure(R, t)
           E == Empties(t)
           S == Starred(R, t)
<1>1. /\ S \in SUBSET (D \X D) /\ Transitive(D, S) /\ S = C \cup E
      /\ C \in SUBSET (D \X D) /\ Transitive(D, C)
      /\ R \cup E \in SUBSET (D \X D)
  BY StarIsTransitive, ClosureIsTransitive, ClosureSpans, EmptySpans DEF Starred
<1>2. Closure(S, t) = S /\ Closure(C, t) = C /\ Closure(R \cup E, t) = S
  BY <1>1, ClosureOfTransitive, ClosureWithEmpties
<1>3. Starred(C, t) = S /\ Starred(R \cup E, t) = S
  BY <1>1, <1>2 DEF Starred
<1> HIDE DEF C, E, S
<1>4. /\ Repeated("*", R, t) = S /\ Repeated("+", R, t) = C /\ Repeated("?", R, t) = R \cup E
  BY RepeatedIs DEF S, C, E
<1>5. /\ Repeated("*", C, t) = Starred(C, t) /\ Repeated("*", R \cup E, t) = Starred(R \cup E, t)
      /\ Repeated("+", S, t) = Closure(S, t) /\ Repeated("+", R \cup E, t) = Closure(R \cup E, t)
      /\ Repeated("?", S, t) = S \cup E /\ Repeated("?", C, t) = C \cup E
  BY RepeatedIs DEF E
<1>6. S \cup E = S
  BY <1>1
<1>7. op \in {"*", "+", "?"} /\ op2 \in {"*", "+", "?"}
  BY DEF Unary
<1>8. CASE op = "*" /\ op2 = "+"
  BY <1>3, <1>4, <1>5, <1>8 DEF S
<1>9. CASE op = "*" /\ op2 = "?"
  BY <1>3, <1>4, <1>5, <1>9 DEF S
<1>10. CASE op = "+" /\ op2 = "*"
  BY <1>2, <1>4, <1>5, <1>10 DEF S
<1>11. CASE op = "+" /\ op2 = "?"
  BY <1>2, <1>4, <1>5, <1>11 DEF S
<1>12. CASE op = "?" /\ op2 = "*"
  BY <1>4, <1>5, <1>6, <1>12 DEF S
<1>13. CASE op = "?" /\ op2 = "+"
  BY <1>1, <1>4, <1>5, <1>13 DEF S
<1> QED BY <1>7, <1>8, <1>9, <1>10, <1>11, <1>12, <1>13

LEMMA RepeatedCommutes ==
  ASSUME NEW t, NEW R \in SUBSET (Places(t) \X Places(t)), NEW op \in Unary, NEW op2 \in Unary
  PROVE  Repeated(op, Repeated(op2, R, t), t) = Repeated(op2, Repeated(op, R, t), t)
<1>1. CASE op = op2
  BY <1>1
<1>2. CASE op # op2
  BY <1>2, RepeatedTwice
<1> QED BY <1>1, <1>2

-----------------------------------------------------------------------------
(* The grammar                                                             *)
(* What follows from facts about fewer tokens is a fact.                   *)

Spans(t) == SUBSET (Places(t) \X Places(t))
Kinds == {"piece", "branch", "tree"}
AllFacts(t) == [kind : Kinds, from : Int, to : Int, spans : Spans(t)]
Size(f) == f.to - f.from + 1

(* The facts about no more than n tokens.                                   *)
Sized(ts, F, n) ==
    \A f \in F : 1 <= f.from /\ f.to <= Len(ts) /\ 1 <= Size(f) /\ Size(f) <= n
New(ts, t, n, F) == Extended(ts, t, n, F) \ F
Growing(ts, t, g) ==
    /\ g \in [0 .. Len(ts) -> SUBSET AllFacts(t)] /\ g[0] = {}
    /\ \A n \in 1 .. Len(ts) : g[n] = Extended(ts, t, n, g[n - 1])

LEMMA FactIs ==
  ASSUME NEW kind, NEW from, NEW to, NEW spans
  PROVE  /\ Fact(kind, from, to, spans).kind = kind /\ Fact(kind, from, to, spans).from = from
         /\ Fact(kind, from, to, spans).to = to /\ Fact(kind, from, to, spans).spans = spans
BY DEF Fact

LEMMA FactTyped ==
  ASSUME NEW t, NEW kind \in Kinds, NEW from \in Int, NEW to \in Int, NEW spans \in Spans(t)
  PROVE  Fact(kind, from, to, spans) \in AllFacts(t)
BY DEF Fact, AllFacts

LEMMA FactFields ==
  ASSUME NEW t, NEW f \in AllFacts(t)
  PROVE  /\ f.kind \in Kinds /\ f.from \in Int /\ f.to \in Int /\ f.spans \in Spans(t)
         /\ f = Fact(f.kind, f.from, f.to, f.spans)
         /\ \A kind : [f EXCEPT !.kind = kind] = Fact(kind, f.from, f.to, f.spans)
BY DEF Fact, AllFacts

LEMMA AsIs ==
  ASSUME NEW t, NEW F \in SUBSET AllFacts(t), NEW kind
  PROVE  As(kind, F) = {Fact(kind, f.from, f.to, f.spans) : f \in F}
<1>1. \A f \in F : [f EXCEPT !.kind = kind] = Fact(kind, f.from, f.to, f.spans)
  BY FactFields
<1> QED BY <1>1 DEF As

(* Membership, one operator a time.                                         *)
Then(f, g, n) == g.kind = "piece" /\ g.from = f.to + 1 /\ g.to - f.from = n - 1
OrElse(ts, f, g, n) ==
    /\ f.kind = "tree" /\ f.to < Len(ts) /\ ts[f.to + 1].kind = "|"
    /\ g.kind = "branch" /\ g.from = f.to + 2 /\ g.to - f.from = n - 1

EitherOf(f, g) == Fact("tree", f.from, g.to, f.spans \cup g.spans)

LEMMA BranchesAre ==
  ASSUME NEW n, NEW F, NEW P, NEW x
  PROVE  x \in Branches(n, F, P) <=>
         \/ x \in As("branch", P)
         \/ \E f \in F, g \in F : /\ f.kind = "branch" /\ Then(f, g, n)
                                  /\ x = Fact("branch", f.from, g.to, Joined(f.spans, g.spans))
<1> DEFINE X(f, g) == Fact("branch", f.from, g.to, Joined(f.spans, g.spans))
           I(f) == {X(f, g) : g \in {g \in F : /\ g.kind = "piece" /\ g.from = f.to + 1
                                               /\ g.to - f.from = n - 1}}
           J == {I(f) : f \in {f \in F : f.kind = "branch"}}
<1>1. Branches(n, F, P) = As("branch", P) \cup UNION J
  BY DEF Branches
<1>2. \A f : x \in I(f) <=> \E g \in F : Then(f, g, n) /\ x = X(f, g)
  <2> HIDE DEF X
  <2> QED BY DEF Then
<1> HIDE DEF X
<1>3. x \in UNION J <=> \E f \in F : f.kind = "branch" /\ x \in I(f)
  <2> HIDE DEF I
  <2> QED OBVIOUS
<1> HIDE DEF J, I
<1> QED BY <1>1, <1>2, <1>3 DEF X

LEMMA TreesAre ==
  ASSUME NEW ts, NEW n, NEW F, NEW B, NEW x
  PROVE  x \in Trees(ts, n, F, B) <=>
         \/ x \in As("tree", B)
         \/ \E f \in F, g \in F : /\ OrElse(ts, f, g, n)
                                  /\ x = EitherOf(f, g)
<1> DEFINE X(f, g) == Fact("tree", f.from, g.to, f.spans \cup g.spans)
           I(f) == {X(f, g) : g \in {g \in F : /\ g.kind = "branch" /\ g.from = f.to + 2
                                               /\ g.to - f.from = n - 1}}
           Before(f) == f.kind = "tree" /\ f.to < Len(ts) /\ ts[f.to + 1].kind = "|"
           J == {I(f) : f \in {f \in F : Before(f)}}
<1>1. Trees(ts, n, F, B) = As("tree", B) \cup UNION J
  BY DEF Trees
<1>2. \A f : Before(f) /\ x \in I(f) <=> \E g \in F : OrElse(ts, f, g, n) /\ x = X(f, g)
  <2> HIDE DEF X
  <2> QED BY DEF OrElse
<1> HIDE DEF X
<1>3. x \in UNION J <=> \E f \in F : Before(f) /\ x \in I(f)
  <2> HIDE DEF I, Before
  <2> QED OBVIOUS
<1> HIDE DEF J, I, Before
<1> QED BY <1>1, <1>2, <1>3 DEF X, EitherOf

LEMMA PiecesTyped ==
  ASSUME NEW ts \in Seq(Lexemes), NEW t, NEW n, NEW F \in SUBSET AllFacts(t)
  PROVE  Pieces(ts, t, n, F) \in SUBSET AllFacts(t)
<1>1. \A k \in DOMAIN ts : Fact("piece", k, k, LetterSpans(ts[k], t)) \in AllFacts(t)
  <2>1. \A k \in DOMAIN ts : k \in Int /\ LetterSpans(ts[k], t) \in Spans(t) /\ "piece" \in Kinds
    BY DEF LetterSpans, Spans, Kinds
  <2> QED BY <2>1, FactTyped
<1>2. \A f \in F : ts[f.to + 1].kind \in {"*", "+", "?"} =>
         Fact("piece", f.from, f.to + 1, Repeated(ts[f.to + 1].kind, f.spans, t)) \in AllFacts(t)
  <2> SUFFICES ASSUME NEW f \in F, NEW op, op = ts[f.to + 1].kind, op \in {"*", "+", "?"}
               PROVE  Fact("piece", f.from, f.to + 1, Repeated(op, f.spans, t)) \in AllFacts(t)
    OBVIOUS
  <2>1. f.from \in Int /\ f.to + 1 \in Int /\ f.spans \in Spans(t)
    BY FactFields
  <2>2. Repeated(op, f.spans, t) \in Spans(t)
    BY <2>1, RepeatedSpans DEF Spans, Unary
  <2> QED BY <2>1, <2>2, FactTyped DEF Kinds
<1>3. \A f \in F : Fact("piece", f.from - 1, f.to + 1, f.spans) \in AllFacts(t)
  <2> TAKE f \in F
  <2>1. f.from - 1 \in Int /\ f.to + 1 \in Int /\ f.spans \in Spans(t)
    BY FactFields
  <2> QED BY <2>1, FactTyped DEF Kinds
<1> QED BY <1>1, <1>2, <1>3 DEF Pieces

LEMMA BranchesTyped ==
  ASSUME NEW t, NEW n, NEW F \in SUBSET AllFacts(t), NEW P \in SUBSET AllFacts(t)
  PROVE  Branches(n, F, P) \in SUBSET AllFacts(t)
<1>1. As("branch", P) \in SUBSET AllFacts(t)
  <2>1. \A f \in P : Fact("branch", f.from, f.to, f.spans) \in AllFacts(t)
    BY FactFields, FactTyped DEF Kinds
  <2> QED BY <2>1, AsIs
<1>2. \A f \in F, g \in F : Fact("branch", f.from, g.to, Joined(f.spans, g.spans)) \in AllFacts(t)
  <2> TAKE f \in F, g \in F
  <2>1. f.from \in Int /\ g.to \in Int /\ f.spans \in Spans(t) /\ g.spans \in Spans(t)
    BY FactFields
  <2>2. Joined(f.spans, g.spans) \in Spans(t)
    BY <2>1, JoinedSpans DEF Spans
  <2> QED BY <2>1, <2>2, FactTyped DEF Kinds
<1> QED BY <1>1, <1>2 DEF Branches

LEMMA TreesTyped ==
  ASSUME NEW ts, NEW t, NEW n, NEW F \in SUBSET AllFacts(t), NEW B \in SUBSET AllFacts(t)
  PROVE  Trees(ts, n, F, B) \in SUBSET AllFacts(t)
<1>1. As("tree", B) \in SUBSET AllFacts(t)
  <2>1. \A f \in B : Fact("tree", f.from, f.to, f.spans) \in AllFacts(t)
    BY FactFields, FactTyped DEF Kinds
  <2> QED BY <2>1, AsIs
<1>2. \A f \in F, g \in F : Fact("tree", f.from, g.to, f.spans \cup g.spans) \in AllFacts(t)
  <2> TAKE f \in F, g \in F
  <2>1. f.from \in Int /\ g.to \in Int /\ f.spans \in Spans(t) /\ g.spans \in Spans(t)
    BY FactFields
  <2>2. f.spans \cup g.spans \in Spans(t)
    BY <2>1 DEF Spans
  <2> QED BY <2>1, <2>2, FactTyped DEF Kinds
<1>3. ASSUME NEW x \in Trees(ts, n, F, B), x \notin As("tree", B) PROVE x \in AllFacts(t)
  <2>1. PICK f \in F, g \in F : x = EitherOf(f, g)
    BY <1>3, TreesAre
  <2> QED BY <1>2, <2>1 DEF EitherOf
<1> QED BY <1>1, <1>3

LEMMA ExtendedTyped ==
  ASSUME NEW ts \in Seq(Lexemes), NEW t, NEW n, NEW F \in SUBSET AllFacts(t)
  PROVE  Extended(ts, t, n, F) \in SUBSET AllFacts(t)
<1> DEFINE P == Pieces(ts, t, n, F)
           B == Branches(n, F, P)
<1>1. P \in SUBSET AllFacts(t)
  BY PiecesTyped
<1> HIDE DEF P
<1>2. B \in SUBSET AllFacts(t)
  BY <1>1, BranchesTyped
<1> HIDE DEF B
<1>3. Trees(ts, n, F, B) \in SUBSET AllFacts(t)
  BY <1>2, TreesTyped
<1>4. Extended(ts, t, n, F) = F \cup P \cup B \cup Trees(ts, n, F, B)
  BY DEF Extended, P, B
<1> QED BY <1>1, <1>2, <1>3, <1>4

LEMMA FactsGrow ==
  ASSUME NEW ts \in Seq(Lexemes), NEW t
  PROVE  \E g : Growing(ts, t, g) /\ Facts(ts, t) = g[Len(ts)]
<1> DEFINE n == Len(ts)
           V == SUBSET AllFacts(t)
           F == [i \in 1 .. n |-> [S \in V |-> Extended(ts, t, i, S)]]
           Is(f) == f = [i \in 0 .. n |-> IF i = 0 THEN {} ELSE Extended(ts, t, i, f[i - 1])]
           upto == CHOOSE f : Is(f)
<1>1. n \in Nat /\ {} \in V
  OBVIOUS
<1>2. Facts(ts, t) = upto[n]
  BY DEF Facts
<1> HIDE DEF n, V
<1>3. \A i \in 1 .. n : F[i] \in [V -> V]
  BY ExtendedTyped DEF V
<1>4. PICK g \in [0 .. n -> V] : ByRecursion(g, F, {}, n)
  <2> HIDE DEF F
  <2> QED BY <1>1, <1>3, RecursionExists
<1>5. g[0] = {} /\ \A i \in 1 .. n : g[i] = Extended(ts, t, i, g[i - 1])
  <2>1. \A i \in 1 .. n : i - 1 \in 0 .. n
    BY <1>1
  <2>2. \A i \in 1 .. n : g[i - 1] \in V
    BY <1>4, <2>1
  <2> QED BY <1>4, <2>2 DEF ByRecursion
<1>6. Is(g)
  <2>1. \A i \in 0 .. n : g[i] = IF i = 0 THEN {} ELSE Extended(ts, t, i, g[i - 1])
    BY <1>1, <1>5
  <2> QED BY <1>4, <2>1
<1>7. Is(upto)
  <2> HIDE DEF Is
  <2> QED BY <1>6
<1>8. \A i \in 0 .. n : upto[i] = g[i]
  <2> DEFINE P == {i \in 0 .. n : upto[i] = g[i]}
  <2>1. upto[0] = {} /\ \A i \in 1 .. n : upto[i] = Extended(ts, t, i, upto[i - 1])
    <3>1. \A i \in 0 .. n : upto[i] = IF i = 0 THEN {} ELSE Extended(ts, t, i, upto[i - 1])
      BY <1>7
    <3> HIDE DEF upto
    <3> QED BY <1>1, <3>1
  <2> HIDE DEF upto
  <2>2. 0 \in P
    <3>1. 0 \in 0 .. n
      BY <1>1
    <3>2. upto[0] = g[0]
      BY <1>5, <2>1
    <3> QED BY <3>1, <3>2
  <2>3. \A i \in 1 .. n : i - 1 \in P => i \in P
    BY <1>5, <2>1
  <2>4. P \in SUBSET (0 .. n)
    OBVIOUS
  <2>5. P = 0 .. n
    <3> HIDE DEF P
    <3> QED BY <1>1, <2>2, <2>3, <2>4, UpTo
  <2> QED BY <2>5
<1>9. upto[n] = g[n]
  <2>1. n \in 0 .. n
    BY <1>1
  <2> QED BY <1>8, <2>1
<1> QED BY <1>2, <1>4, <1>5, <1>9 DEF Growing, n, V

Repeats(ts, f, n) ==
    /\ f.kind = "piece" /\ f.to - f.from = n - 2
    /\ f.to < Len(ts) /\ ts[f.to + 1].kind \in {"*", "+", "?"}
Groups(ts, f, n) ==
    /\ f.kind = "tree" /\ f.to - f.from = n - 3
    /\ f.from > 1 /\ ts[f.from - 1].kind = "("
    /\ f.to < Len(ts) /\ ts[f.to + 1].kind = ")"

LEMMA PiecesAre ==
  ASSUME NEW ts, NEW t, NEW n, NEW F, NEW x
  PROVE  x \in Pieces(ts, t, n, F) <=>
         \/ \E k \in DOMAIN ts : /\ n = 1 /\ ts[k].kind \in Letters
                                 /\ x = Fact("piece", k, k, LetterSpans(ts[k], t))
         \/ \E f \in F : /\ Repeats(ts, f, n)
                         /\ x = Fact("piece", f.from, f.to + 1,
                                     Repeated(ts[f.to + 1].kind, f.spans, t))
         \/ \E f \in F : /\ Groups(ts, f, n)
                         /\ x = Fact("piece", f.from - 1, f.to + 1, f.spans)
<1> DEFINE X(k) == Fact("piece", k, k, LetterSpans(ts[k], t))
           Y(f) == Fact("piece", f.from, f.to + 1, Repeated(ts[f.to + 1].kind, f.spans, t))
           Z(f) == Fact("piece", f.from - 1, f.to + 1, f.spans)
           A == {k \in DOMAIN ts : n = 1 /\ ts[k].kind \in Letters}
           B == {f \in F : /\ f.kind = "piece" /\ f.to - f.from = n - 2
                           /\ f.to < Len(ts) /\ ts[f.to + 1].kind \in {"*", "+", "?"}}
           C == {f \in F : /\ f.kind = "tree" /\ f.to - f.from = n - 3
                           /\ f.from > 1 /\ ts[f.from - 1].kind = "("
                           /\ f.to < Len(ts) /\ ts[f.to + 1].kind = ")"}
<1>1. Pieces(ts, t, n, F) = {X(k) : k \in A} \cup {Y(f) : f \in B} \cup {Z(f) : f \in C}
  BY DEF Pieces
<1>2. /\ \A k : k \in A <=> k \in DOMAIN ts /\ n = 1 /\ ts[k].kind \in Letters
      /\ \A f : f \in B <=> f \in F /\ Repeats(ts, f, n)
      /\ \A f : f \in C <=> f \in F /\ Groups(ts, f, n)
  BY DEF Repeats, Groups
<1> HIDE DEF X, Y, Z, A, B, C
<1>3. x \in Pieces(ts, t, n, F) <=>
      (\E k \in A : x = X(k)) \/ (\E f \in B : x = Y(f)) \/ (\E f \in C : x = Z(f))
  BY <1>1
<1> QED BY <1>2, <1>3 DEF X, Y, Z

(* A new fact about n tokens is about n tokens of the pattern.              *)
Extends(ts, x, n) == 1 <= x.from /\ x.to <= Len(ts) /\ Size(x) = n

(* The same by the ends of the fact. *)
LEMMA FactExtends ==
  ASSUME NEW ts, NEW k, NEW i, NEW j, NEW r, NEW n, 1 <= i, j <= Len(ts), j - i + 1 = n
  PROVE  Extends(ts, Fact(k, i, j, r), n)
BY FactIs DEF Extends, Size

LEMMA PieceExtends ==
  ASSUME NEW ts \in Seq(Lexemes), NEW t, NEW n \in 1 .. Len(ts), NEW F \in SUBSET AllFacts(t),
         Sized(ts, F, n - 1), NEW x \in Pieces(ts, t, n, F)
  PROVE  Extends(ts, x, n) /\ x.kind = "piece"
<1>1. \/ \E k \in DOMAIN ts : /\ n = 1 /\ ts[k].kind \in Letters
                              /\ x = Fact("piece", k, k, LetterSpans(ts[k], t))
      \/ \E f \in F : /\ Repeats(ts, f, n)
                      /\ x = Fact("piece", f.from, f.to + 1,
                                  Repeated(ts[f.to + 1].kind, f.spans, t))
      \/ \E f \in F : /\ Groups(ts, f, n)
                      /\ x = Fact("piece", f.from - 1, f.to + 1, f.spans)
  BY PiecesAre
<1>2. ASSUME NEW k \in DOMAIN ts, n = 1, x = Fact("piece", k, k, LetterSpans(ts[k], t))
      PROVE  Extends(ts, x, n) /\ x.kind = "piece"
  <2>1. x.from = k /\ x.to = k /\ x.kind = "piece" /\ k \in 1 .. Len(ts)
    BY <1>2, FactIs
  <2> QED BY <1>2, <2>1 DEF Extends, Size
<1>3. ASSUME NEW f \in F, NEW r, Repeats(ts, f, n), x = Fact("piece", f.from, f.to + 1, r)
      PROVE  Extends(ts, x, n) /\ x.kind = "piece"
  <2>1. x.from = f.from /\ x.to = f.to + 1 /\ x.kind = "piece"
    BY <1>3, FactIs
  <2>2. f.from \in Int /\ f.to \in Int /\ 1 <= f.from /\ f.to < Len(ts) /\ f.to - f.from = n - 2
    BY <1>3, FactFields DEF Repeats, Sized
  <2> QED BY <2>1, <2>2 DEF Extends, Size
<1>4. ASSUME NEW f \in F, Groups(ts, f, n), x = Fact("piece", f.from - 1, f.to + 1, f.spans)
      PROVE  Extends(ts, x, n) /\ x.kind = "piece"
  <2>1. x.from = f.from - 1 /\ x.to = f.to + 1 /\ x.kind = "piece"
    BY <1>4, FactIs
  <2>2. f.from \in Int /\ f.to \in Int /\ 1 < f.from /\ f.to < Len(ts) /\ f.to - f.from = n - 3
    BY <1>4, FactFields DEF Groups
  <2>3. \A a, b, l \in Int : 1 < a /\ b < l /\ b - a = n - 3 =>
          1 <= a - 1 /\ b + 1 <= l /\ (b + 1) - (a - 1) + 1 = n
    OBVIOUS
  <2>4. Len(ts) \in Int
    OBVIOUS
  <2>5. 1 <= f.from - 1 /\ f.to + 1 <= Len(ts) /\ (f.to + 1) - (f.from - 1) + 1 = n
    BY <2>2, <2>3, <2>4, Zenon
  <2>6. Extends(ts, Fact("piece", f.from - 1, f.to + 1, f.spans), n)
    BY <2>5, FactExtends
  <2> QED BY <1>4, <2>1, <2>6
<1> QED BY <1>1, <1>2, <1>3, <1>4

LEMMA BranchExtends ==
  ASSUME NEW ts \in Seq(Lexemes), NEW t, NEW n \in 1 .. Len(ts), NEW F \in SUBSET AllFacts(t),
         Sized(ts, F, n - 1), NEW P \in SUBSET AllFacts(t), \A x \in P : Extends(ts, x, n),
         NEW x \in Branches(n, F, P)
  PROVE  Extends(ts, x, n) /\ x.kind = "branch"
<1>1. \/ x \in As("branch", P)
      \/ \E f \in F, g \in F : /\ f.kind = "branch" /\ Then(f, g, n)
                               /\ x = Fact("branch", f.from, g.to, Joined(f.spans, g.spans))
  BY BranchesAre
<1>2. CASE x \in As("branch", P)
  <2>0. As("branch", P) = {Fact("branch", f.from, f.to, f.spans) : f \in P}
    BY AsIs
  <2>1. PICK f \in P : x = Fact("branch", f.from, f.to, f.spans)
    BY <1>2, <2>0
  <2> QED BY <2>1, FactIs DEF Extends, Size
<1>3. ASSUME NEW f \in F, NEW g \in F, NEW r, Then(f, g, n), x = Fact("branch", f.from, g.to, r)
      PROVE  Extends(ts, x, n) /\ x.kind = "branch"
  <2>1. x.from = f.from /\ x.to = g.to /\ x.kind = "branch"
    BY <1>3, FactIs
  <2>2. f.from \in Int /\ g.to \in Int /\ 1 <= f.from /\ g.to <= Len(ts) /\ g.to - f.from = n - 1
    BY <1>3, FactFields DEF Then, Sized
  <2> QED BY <2>1, <2>2 DEF Extends, Size
<1> QED BY <1>1, <1>2, <1>3

LEMMA TreeExtends ==
  ASSUME NEW ts \in Seq(Lexemes), NEW t, NEW n \in 1 .. Len(ts), NEW F \in SUBSET AllFacts(t),
         Sized(ts, F, n - 1), NEW B \in SUBSET AllFacts(t), \A x \in B : Extends(ts, x, n),
         NEW x \in Trees(ts, n, F, B)
  PROVE  Extends(ts, x, n) /\ x.kind = "tree"
<1>1. \/ x \in As("tree", B)
      \/ \E f \in F, g \in F : /\ OrElse(ts, f, g, n)
                               /\ x = EitherOf(f, g)
  BY TreesAre
<1>2. CASE x \in As("tree", B)
  <2>0. As("tree", B) = {Fact("tree", f.from, f.to, f.spans) : f \in B}
    BY AsIs
  <2>1. PICK f \in B : x = Fact("tree", f.from, f.to, f.spans)
    BY <1>2, <2>0
  <2> QED BY <2>1, FactIs DEF Extends, Size
<1>3. ASSUME NEW f \in F, NEW g \in F, OrElse(ts, f, g, n), x = EitherOf(f, g)
      PROVE  Extends(ts, x, n) /\ x.kind = "tree"
  <2>1. x.from = f.from /\ x.to = g.to /\ x.kind = "tree"
    BY <1>3, FactIs DEF EitherOf
  <2>2. f.from \in Int /\ g.to \in Int /\ 1 <= f.from /\ g.to <= Len(ts) /\ g.to - f.from = n - 1
    BY <1>3, FactFields DEF OrElse, Sized
  <2> QED BY <2>1, <2>2 DEF Extends, Size
<1> QED BY <1>1, <1>2, <1>3

LEMMA NewFacts ==
  ASSUME NEW ts \in Seq(Lexemes), NEW t, NEW n \in 1 .. Len(ts), NEW F \in SUBSET AllFacts(t),
         Sized(ts, F, n - 1), NEW x \in Extended(ts, t, n, F), x \notin F
  PROVE  Extends(ts, x, n) /\ (x.kind = "piece" => x \in Pieces(ts, t, n, F))
                           /\ (x.kind = "branch" => x \in Branches(n, F, Pieces(ts, t, n, F)))
<1> DEFINE P == Pieces(ts, t, n, F)
           B == Branches(n, F, P)
<1>1. P \in SUBSET AllFacts(t) /\ \A y \in P : Extends(ts, y, n) /\ y.kind = "piece"
  BY PiecesTyped, PieceExtends
<1>2. x \in F \cup P \cup B \cup Trees(ts, n, F, B)
  BY DEF Extended
<1> HIDE DEF P
<1>3. B \in SUBSET AllFacts(t) /\ \A y \in B : Extends(ts, y, n) /\ y.kind = "branch"
  BY <1>1, BranchesTyped, BranchExtends
<1> HIDE DEF B
<1>4. \A y \in Trees(ts, n, F, B) : Extends(ts, y, n) /\ y.kind = "tree"
  BY <1>3, TreeExtends
<1> QED BY <1>1, <1>2, <1>3, <1>4 DEF P, B

Grown(ts, t, g, F) ==
    /\ g \in [0 .. Len(ts) -> SUBSET AllFacts(t)] /\ F \in SUBSET AllFacts(t)
    /\ \A n \in 1 .. Len(ts) : g[n] = Extended(ts, t, n, g[n - 1])
    /\ \A f \in F : /\ 1 <= f.from /\ f.to <= Len(ts) /\ 1 <= Size(f) /\ Size(f) <= Len(ts)
                    /\ \A n \in 0 .. Len(ts) : Size(f) <= n => f \in g[n]
    /\ \A n \in 0 .. Len(ts) : \A f \in g[n] : f \in F /\ Size(f) <= n

LEMMA SizesGrow ==
  ASSUME NEW ts \in Seq(Lexemes), NEW t, NEW g, Growing(ts, t, g)
  PROVE  \A n \in 0 .. Len(ts) : Sized(ts, g[n], n)
<1> DEFINE L == Len(ts)
           P == {n \in 0 .. L : Sized(ts, g[n], n)}
<1>1. L \in Nat /\ g \in [0 .. L -> SUBSET AllFacts(t)] /\ g[0] = {}
      /\ \A n \in 1 .. L : g[n] = Extended(ts, t, n, g[n - 1])
  BY DEF Growing
<1>2. 0 \in P
  <2>1. Sized(ts, {}, 0)
    BY DEF Sized
  <2>2. Sized(ts, g[0], 0) /\ 0 \in 0 .. L
    BY <1>1, <2>1
  <2> QED BY <2>2
<1>3. \A n \in 1 .. L : n - 1 \in P => n \in P
  <2> SUFFICES ASSUME NEW n \in 1 .. L, Sized(ts, g[n - 1], n - 1) PROVE Sized(ts, g[n], n)
    OBVIOUS
  <2> DEFINE F == g[n - 1]
  <2>1. F \in SUBSET AllFacts(t) /\ g[n] = Extended(ts, t, n, F) /\ Sized(ts, F, n - 1) /\ n \in Int
    BY <1>1
  <2> HIDE DEF F
  <2>2. \A x \in g[n] : x \notin F => Extends(ts, x, n)
    BY <2>1, NewFacts
  <2>3. \A x \in F : 1 <= x.from /\ x.to <= Len(ts) /\ 1 <= Size(x) /\ Size(x) <= n
    <3> TAKE x \in F
    <3>1. 1 <= x.from /\ x.to <= Len(ts) /\ 1 <= Size(x) /\ Size(x) <= n - 1
      BY <2>1 DEF Sized
    <3>2. Size(x) \in Int
      BY <2>1, FactFields DEF Size
    <3> QED BY <2>1, <3>1, <3>2
  <2>4. \A x \in g[n] : x \notin F => 1 <= x.from /\ x.to <= Len(ts) /\ 1 <= Size(x) /\ Size(x) <= n
    BY <2>1, <2>2 DEF Extends
  <2> QED BY <2>3, <2>4 DEF Sized
<1>4. P \in SUBSET (0 .. L)
  OBVIOUS
<1>5. P = 0 .. L
  <2> HIDE DEF P
  <2> QED BY <1>1, <1>2, <1>3, <1>4, UpTo
<1> QED BY <1>5

LEMMA FactsStay ==
  ASSUME NEW ts \in Seq(Lexemes), NEW t, NEW g, Growing(ts, t, g),
         NEW m \in 0 .. Len(ts), NEW f \in g[m]
  PROVE  \A n \in 0 .. Len(ts) : m <= n => f \in g[n]
<1> DEFINE L == Len(ts)
           P == {n \in 0 .. L : m <= n => f \in g[n]}
<1>1. L \in Nat /\ \A n \in 1 .. L : g[n] = Extended(ts, t, n, g[n - 1])
  BY DEF Growing
<1>2. 0 \in P
  OBVIOUS
<1>3. \A n \in 1 .. L : n - 1 \in P => n \in P
  <2> SUFFICES ASSUME NEW n \in 1 .. L, m <= n - 1 => f \in g[n - 1], m <= n PROVE f \in g[n]
    OBVIOUS
  <2>1. CASE m = n
    BY <2>1
  <2>2. CASE m # n
    <3>1. m <= n - 1
      BY <2>2
    <3>2. f \in g[n - 1]
      BY <3>1
    <3> QED BY <1>1, <3>2 DEF Extended
  <2> QED BY <2>1, <2>2
<1>4. P \in SUBSET (0 .. L)
  OBVIOUS
<1>5. P = 0 .. L
  <2> HIDE DEF P
  <2> QED BY <1>1, <1>2, <1>3, <1>4, UpTo
<1> QED BY <1>5

LEMMA FactsFrom ==
  ASSUME NEW ts \in Seq(Lexemes), NEW t, NEW g, Growing(ts, t, g)
  PROVE  \A n \in 0 .. Len(ts) : \A f \in g[n] : f \in g[Size(f)]
<1> DEFINE L == Len(ts)
           P == {n \in 0 .. L : \A f \in g[n] : f \in g[Size(f)]}
<1>1. L \in Nat /\ g[0] = {} /\ \A n \in 1 .. L : g[n] = Extended(ts, t, n, g[n - 1])
      /\ g \in [0 .. L -> SUBSET AllFacts(t)]
  BY DEF Growing
<1>2. 0 \in P
  BY <1>1
<1>3. \A n \in 1 .. L : n - 1 \in P => n \in P
  <2> SUFFICES ASSUME NEW n \in 1 .. L, \A f \in g[n - 1] : f \in g[Size(f)], NEW f \in g[n]
               PROVE  f \in g[Size(f)]
    OBVIOUS
  <2>1. CASE f \in g[n - 1]
    BY <2>1
  <2>2. CASE f \notin g[n - 1]
    <3> DEFINE F == g[n - 1]
    <3>1. F \in SUBSET AllFacts(t) /\ Sized(ts, F, n - 1) /\ f \in Extended(ts, t, n, F)
      BY <1>1, SizesGrow
    <3> HIDE DEF F
    <3>2. Extends(ts, f, n)
      BY <2>2, <3>1, NewFacts DEF F
    <3> QED BY <3>2 DEF Extends
  <2> QED BY <2>1, <2>2
<1>4. P \in SUBSET (0 .. L)
  OBVIOUS
<1>5. P = 0 .. L
  <2> HIDE DEF P
  <2> QED BY <1>1, <1>2, <1>3, <1>4, UpTo
<1> QED BY <1>5

LEMMA FactsAreGrown ==
  ASSUME NEW ts \in Seq(Lexemes), NEW t
  PROVE  \E g : Grown(ts, t, g, Facts(ts, t))
<1> DEFINE L == Len(ts)
           F == Facts(ts, t)
<1>1. PICK g : Growing(ts, t, g) /\ F = g[L]
  BY FactsGrow
<1>2. L \in Nat /\ L \in 0 .. L /\ g \in [0 .. L -> SUBSET AllFacts(t)]
      /\ \A n \in 1 .. L : g[n] = Extended(ts, t, n, g[n - 1])
  BY <1>1 DEF Growing
<1> HIDE DEF F
<1>3. \A n \in 0 .. L : Sized(ts, g[n], n)
  BY <1>1, SizesGrow
<1>4. \A n \in 0 .. L : \A f \in g[n] : f \in F /\ Size(f) <= n
  <2> TAKE n \in 0 .. L
  <2> TAKE f \in g[n]
  <2>1. f \in g[L]
    BY <1>1, <1>2, FactsStay
  <2> QED BY <1>1, <1>3, <2>1 DEF Sized
<1>5. ASSUME NEW f \in F
      PROVE  /\ 1 <= f.from /\ f.to <= L /\ 1 <= Size(f) /\ Size(f) <= L
             /\ \A n \in 0 .. L : Size(f) <= n => f \in g[n]
  <2>1. 1 <= f.from /\ f.to <= L /\ 1 <= Size(f) /\ Size(f) <= L
    BY <1>1, <1>2, <1>3 DEF Sized
  <2>2. Size(f) \in Int
    BY <1>1, <1>2, FactFields DEF Size
  <2>3. Size(f) \in 0 .. L /\ f \in g[Size(f)]
    BY <1>1, <1>2, <2>1, <2>2, FactsFrom
  <2>4. \A n \in 0 .. L : Size(f) <= n => f \in g[n]
    BY <1>1, <2>3, FactsStay
  <2> QED BY <2>1, <2>4
<1> QED BY <1>1, <1>2, <1>4, <1>5 DEF Grown, F

Means(ts, t, kind, a, b, R) == Fact(kind, a, b, R) \in Facts(ts, t)

LEMMA FactAdded ==
  ASSUME NEW ts, NEW t, NEW g, NEW F, Grown(ts, t, g, F), NEW n \in 1 .. Len(ts), NEW x,
         NEW P, P = Pieces(ts, t, n, g[n - 1]), NEW B, B = Branches(n, g[n - 1], P),
         x \in P \/ x \in B \/ x \in Trees(ts, n, g[n - 1], B), ts \in Seq(Lexemes)
  PROVE  x \in F
<1>1. g[n] = g[n - 1] \cup P \cup B \cup Trees(ts, n, g[n - 1], B)
  BY DEF Grown, Extended
<1>2. x \in g[n] /\ n \in 0 .. Len(ts)
  BY <1>1
<1> QED BY <1>2 DEF Grown

(* Where a fact of a size lies, and what it is made of.                     *)
LEMMA FactSized ==
  ASSUME NEW ts \in Seq(Lexemes), NEW t, NEW g, NEW F, Grown(ts, t, g, F), NEW f \in F
  PROVE  /\ f.from \in 1 .. f.to /\ f.to \in 1 .. Len(ts) /\ Size(f) \in 1 .. Len(ts)
         /\ f.spans \in Spans(t)
         /\ \A n \in 0 .. Len(ts) : Size(f) <= n => f \in g[n]
<1>1. f.from \in Int /\ f.to \in Int /\ f.spans \in Spans(t)
  BY FactFields DEF Grown
<1>2. 1 <= f.from /\ f.to <= Len(ts) /\ 1 <= Size(f) /\ Size(f) <= Len(ts)
  BY DEF Grown
<1>3. \A n \in 0 .. Len(ts) : Size(f) <= n => f \in g[n]
  BY DEF Grown
<1> QED BY <1>1, <1>2, <1>3 DEF Size

LEMMA FactLast ==
  ASSUME NEW ts \in Seq(Lexemes), NEW t, NEW g, NEW F, Grown(ts, t, g, F), NEW f \in F,
         NEW n, n = Size(f)
  PROVE  /\ n \in 1 .. Len(ts)
         /\ f.kind = "piece" => f \in Pieces(ts, t, n, g[n - 1])
         /\ f.kind = "branch" => f \in Branches(n, g[n - 1], Pieces(ts, t, n, g[n - 1]))
<1>1. n \in 1 .. Len(ts) /\ f \in g[n]
  BY FactSized
<1> DEFINE G == g[n - 1]
<1>2. n - 1 \in 0 .. Len(ts) /\ n \in Int
  BY <1>1
<1>3. G \in SUBSET AllFacts(t) /\ g[n] = Extended(ts, t, n, G)
  BY <1>1, <1>2 DEF Grown
<1>4. \A x \in G : x \in F /\ Size(x) <= n - 1
  BY <1>2 DEF Grown
<1>5. Sized(ts, G, n - 1)
  BY <1>4 DEF Sized, Grown
<1>6. f \notin G
  BY <1>2, <1>4
<1> HIDE DEF G
<1>7. (f.kind = "piece" => f \in Pieces(ts, t, n, G))
      /\ (f.kind = "branch" => f \in Branches(n, G, Pieces(ts, t, n, G)))
  BY <1>1, <1>3, <1>5, <1>6, NewFacts
<1> QED BY <1>1, <1>7 DEF G

LEMMA MeansTyped ==
  ASSUME NEW ts \in Seq(Lexemes), NEW t, NEW kind, NEW a, NEW b, NEW R, Means(ts, t, kind, a, b, R)
  PROVE  /\ a \in 1 .. b /\ b \in 1 .. Len(ts) /\ R \in SUBSET (Places(t) \X Places(t))
<1>1. PICK g : Grown(ts, t, g, Facts(ts, t))
  BY FactsAreGrown
<1> QED BY <1>1, FactSized, FactIs DEF Means, Spans

LEMMA LetterMeans ==
  ASSUME NEW ts \in Seq(Lexemes), NEW t, NEW k \in 1 .. Len(ts), ts[k].kind \in Letters
  PROVE  Means(ts, t, "piece", k, k, LetterSpans(ts[k], t))
<1> DEFINE F == Facts(ts, t)
           x == Fact("piece", k, k, LetterSpans(ts[k], t))
<1>1. PICK g : Grown(ts, t, g, F)
  BY FactsAreGrown
<1>2. x \in Pieces(ts, t, 1, g[1 - 1])
  <2>1. k \in DOMAIN ts /\ 1 = 1 /\ ts[k].kind \in Letters
    OBVIOUS
  <2> HIDE DEF F
  <2> QED BY <2>1, PiecesAre
<1>3. 1 \in 1 .. Len(ts)
  OBVIOUS
<1> HIDE DEF F, x
<1>4. x \in F
  BY <1>1, <1>2, <1>3, FactAdded
<1> QED BY <1>4 DEF Means, F, x

LEMMA RepeatedMeans ==
  ASSUME NEW ts \in Seq(Lexemes), NEW t, NEW a, NEW b, NEW R, Means(ts, t, "piece", a, b, R),
         NEW k, k = b + 1, k <= Len(ts), ts[k].kind \in Unary
  PROVE  Means(ts, t, "piece", a, k, Repeated(ts[k].kind, R, t))
<1> DEFINE F == Facts(ts, t)
           f == Fact("piece", a, b, R)
           x == Fact("piece", a, k, Repeated(ts[k].kind, R, t))
<1>1. PICK g : Grown(ts, t, g, F)
  BY FactsAreGrown
<1>2. f \in F /\ f.kind = "piece" /\ f.from = a /\ f.to = b /\ f.spans = R
  BY FactIs DEF Means
<1> HIDE DEF F, f
<1>3. a \in 1 .. b /\ b \in 1 .. Len(ts) /\ \A n \in 0 .. Len(ts) : Size(f) <= n => f \in g[n]
  BY <1>1, <1>2, FactSized
<1>4. PICK n, m : n = k - a + 1 /\ m = n - 1
  OBVIOUS
<1>5. n \in 1 .. Len(ts) /\ m \in 0 .. Len(ts) /\ b - a = n - 2 /\ Size(f) <= m /\ b < Len(ts)
  BY <1>2, <1>3, <1>4 DEF Size
<1>6. f \in g[m] /\ Repeats(ts, f, n)
  BY <1>2, <1>3, <1>5 DEF Repeats, Unary
<1>7. x = Fact("piece", f.from, f.to + 1, Repeated(ts[f.to + 1].kind, f.spans, t))
  BY <1>2
<1> HIDE DEF x
<1>8. x \in Pieces(ts, t, n, g[m])
  BY <1>6, <1>7, PiecesAre
<1>9. x \in F
  BY <1>1, <1>4, <1>5, <1>8, FactAdded
<1> QED BY <1>9 DEF Means, F, x

LEMMA GroupMeans ==
  ASSUME NEW ts \in Seq(Lexemes), NEW t, NEW a, NEW b, NEW R, Means(ts, t, "tree", a, b, R),
         NEW k, k = b + 1, k <= Len(ts), ts[k].kind = ")",
         NEW l, l = a - 1, 1 <= l, ts[l].kind = "("
  PROVE  Means(ts, t, "piece", l, k, R)
<1> DEFINE F == Facts(ts, t)
           f == Fact("tree", a, b, R)
           x == Fact("piece", l, k, R)
<1>1. PICK g : Grown(ts, t, g, F)
  BY FactsAreGrown
<1>2. f \in F /\ f.kind = "tree" /\ f.from = a /\ f.to = b /\ f.spans = R
  BY FactIs DEF Means
<1> HIDE DEF F, f
<1>3. a \in 1 .. b /\ b \in 1 .. Len(ts) /\ \A n \in 0 .. Len(ts) : Size(f) <= n => f \in g[n]
  BY <1>1, <1>2, FactSized
<1>4. PICK n, m : n = k - l + 1 /\ m = n - 1
  OBVIOUS
<1>5. n \in 1 .. Len(ts) /\ m \in 0 .. Len(ts) /\ b - a = n - 3 /\ Size(f) <= m /\ b < Len(ts) /\ a > 1
  BY <1>2, <1>3, <1>4 DEF Size
<1>6. f \in g[m] /\ Groups(ts, f, n)
  BY <1>2, <1>3, <1>5 DEF Groups
<1>7. x = Fact("piece", f.from - 1, f.to + 1, f.spans)
  BY <1>2
<1> HIDE DEF x
<1>8. x \in Pieces(ts, t, n, g[m])
  BY <1>6, <1>7, PiecesAre
<1>9. x \in F
  BY <1>1, <1>4, <1>5, <1>8, FactAdded
<1> QED BY <1>9 DEF Means, F, x

LEMMA PieceMeans ==
  ASSUME NEW ts \in Seq(Lexemes), NEW t, NEW a, NEW b, NEW R, Means(ts, t, "piece", a, b, R)
  PROVE  Means(ts, t, "branch", a, b, R)
<1> DEFINE F == Facts(ts, t)
           f == Fact("piece", a, b, R)
           x == Fact("branch", a, b, R)
<1>1. PICK g : Grown(ts, t, g, F)
  BY FactsAreGrown
<1>2. f \in F /\ f.kind = "piece" /\ f.from = a /\ f.to = b /\ f.spans = R
  BY FactIs DEF Means
<1> HIDE DEF F, f
<1>3. PICK n, m : n = Size(f) /\ m = n - 1
  OBVIOUS
<1>4. n \in 1 .. Len(ts) /\ f \in Pieces(ts, t, n, g[m])
  BY <1>1, <1>2, <1>3, FactLast
<1>5. Pieces(ts, t, n, g[m]) \in SUBSET AllFacts(t)
  <2>1. m \in 0 .. Len(ts)
    BY <1>3, <1>4
  <2>2. g[m] \in SUBSET AllFacts(t)
    BY <1>1, <2>1 DEF Grown
  <2> QED BY <2>2, PiecesTyped
<1> DEFINE P == Pieces(ts, t, n, g[m])
<1>6. x = Fact("branch", f.from, f.to, f.spans)
  BY <1>2
<1> HIDE DEF x, P
<1>7. x \in As("branch", P)
  BY <1>4, <1>5, <1>6, AsIs DEF P
<1>8. x \in Branches(n, g[m], P)
  BY <1>7, BranchesAre
<1>9. x \in F
  BY <1>1, <1>3, <1>4, <1>8, FactAdded DEF P
<1> QED BY <1>9 DEF Means, F, x

LEMMA BranchMeans ==
  ASSUME NEW ts \in Seq(Lexemes), NEW t, NEW a, NEW b, NEW R, Means(ts, t, "branch", a, b, R)
  PROVE  Means(ts, t, "tree", a, b, R)
<1> DEFINE F == Facts(ts, t)
           f == Fact("branch", a, b, R)
           x == Fact("tree", a, b, R)
<1>1. PICK g : Grown(ts, t, g, F)
  BY FactsAreGrown
<1>2. f \in F /\ f.kind = "branch" /\ f.from = a /\ f.to = b /\ f.spans = R
  BY FactIs DEF Means
<1> HIDE DEF F, f
<1>3. PICK n, m : n = Size(f) /\ m = n - 1
  OBVIOUS
<1>4. n \in 1 .. Len(ts) /\ f \in Branches(n, g[m], Pieces(ts, t, n, g[m]))
  BY <1>1, <1>2, <1>3, FactLast
<1> DEFINE P == Pieces(ts, t, n, g[m])
           B == Branches(n, g[m], P)
<1>5. B \in SUBSET AllFacts(t) /\ f \in B
  <2>1. m \in 0 .. Len(ts)
    BY <1>3, <1>4
  <2>2. g[m] \in SUBSET AllFacts(t)
    BY <1>1, <2>1 DEF Grown
  <2>3. P \in SUBSET AllFacts(t)
    BY <2>2, PiecesTyped
  <2> HIDE DEF P
  <2>4. B \in SUBSET AllFacts(t)
    BY <2>2, <2>3, BranchesTyped
  <2> QED BY <1>4, <2>4 DEF P
<1>6. x = Fact("tree", f.from, f.to, f.spans)
  BY <1>2
<1> HIDE DEF x, P, B
<1>7. x \in As("tree", B)
  BY <1>5, <1>6, AsIs
<1>8. x \in Trees(ts, n, g[m], B)
  BY <1>7, TreesAre
<1>9. x \in F
  BY <1>1, <1>3, <1>4, <1>8, FactAdded DEF P, B
<1> QED BY <1>9 DEF Means, F, x

LEMMA JoinedMeans ==
  ASSUME NEW ts \in Seq(Lexemes), NEW t, NEW a, NEW b, NEW R, Means(ts, t, "branch", a, b, R),
         NEW l, l = b + 1, NEW c, NEW S, Means(ts, t, "piece", l, c, S)
  PROVE  Means(ts, t, "branch", a, c, Joined(R, S))
<1> DEFINE F == Facts(ts, t)
           f == Fact("branch", a, b, R)
           h == Fact("piece", l, c, S)
           x == Fact("branch", a, c, Joined(R, S))
<1>1. PICK g : Grown(ts, t, g, F)
  BY FactsAreGrown
<1>2. /\ f \in F /\ f.kind = "branch" /\ f.from = a /\ f.to = b /\ f.spans = R
      /\ h \in F /\ h.kind = "piece" /\ h.from = l /\ h.to = c /\ h.spans = S
  BY FactIs DEF Means
<1> HIDE DEF F, f, h
<1>3. /\ a \in 1 .. b /\ b \in 1 .. Len(ts) /\ \A n \in 0 .. Len(ts) : Size(f) <= n => f \in g[n]
      /\ l \in 1 .. c /\ c \in 1 .. Len(ts) /\ \A n \in 0 .. Len(ts) : Size(h) <= n => h \in g[n]
  BY <1>1, <1>2, FactSized
<1>4. PICK n, m : n = c - a + 1 /\ m = n - 1
  OBVIOUS
<1>5. n \in 1 .. Len(ts) /\ m \in 0 .. Len(ts) /\ c - a = n - 1 /\ Size(f) <= m /\ Size(h) <= m
  BY <1>2, <1>3, <1>4 DEF Size
<1>6. f \in g[m] /\ h \in g[m] /\ Then(f, h, n)
  BY <1>2, <1>3, <1>5 DEF Then
<1>7. x = Fact("branch", f.from, h.to, Joined(f.spans, h.spans))
  BY <1>2
<1> DEFINE P == Pieces(ts, t, n, g[m])
<1> HIDE DEF x, P
<1>8. x \in Branches(n, g[m], P)
  BY <1>2, <1>6, <1>7, BranchesAre
<1>9. x \in F
  BY <1>1, <1>4, <1>5, <1>8, FactAdded DEF P
<1> QED BY <1>9 DEF Means, F, x

LEMMA ChoiceMeans ==
  ASSUME NEW ts \in Seq(Lexemes), NEW t, NEW a, NEW b, NEW R, Means(ts, t, "tree", a, b, R),
         NEW k, k = b + 1, ts[k].kind = "|",
         NEW l, l = k + 1, NEW c, NEW S, Means(ts, t, "branch", l, c, S)
  PROVE  Means(ts, t, "tree", a, c, R \cup S)
<1> DEFINE F == Facts(ts, t)
           f == Fact("tree", a, b, R)
           h == Fact("branch", l, c, S)
           x == Fact("tree", a, c, R \cup S)
<1>1. PICK g : Grown(ts, t, g, F)
  BY FactsAreGrown
<1>2. /\ f \in F /\ f.kind = "tree" /\ f.from = a /\ f.to = b /\ f.spans = R
      /\ h \in F /\ h.kind = "branch" /\ h.from = l /\ h.to = c /\ h.spans = S
  BY FactIs DEF Means
<1> HIDE DEF F, f, h
<1>3. /\ a \in 1 .. b /\ b \in 1 .. Len(ts) /\ \A n \in 0 .. Len(ts) : Size(f) <= n => f \in g[n]
      /\ l \in 1 .. c /\ c \in 1 .. Len(ts) /\ \A n \in 0 .. Len(ts) : Size(h) <= n => h \in g[n]
  BY <1>1, <1>2, FactSized
<1>4. PICK n, m : n = c - a + 1 /\ m = n - 1
  OBVIOUS
<1>5. /\ n \in 1 .. Len(ts) /\ m \in 0 .. Len(ts) /\ c - a = n - 1 /\ Size(f) <= m /\ Size(h) <= m
      /\ b < Len(ts) /\ l = b + 2
  BY <1>2, <1>3, <1>4 DEF Size
<1>6. f \in g[m] /\ h \in g[m] /\ OrElse(ts, f, h, n)
  BY <1>2, <1>3, <1>5 DEF OrElse
<1>7. x = EitherOf(f, h)
  BY <1>2 DEF EitherOf
<1> DEFINE P == Pieces(ts, t, n, g[m])
           B == Branches(n, g[m], P)
<1> HIDE DEF x, P, B
<1>8. x \in Trees(ts, n, g[m], B)
  BY <1>6, <1>7, TreesAre
<1>9. x \in F
  BY <1>1, <1>4, <1>5, <1>8, FactAdded DEF P, B
<1> QED BY <1>9 DEF Means, F, x

-----------------------------------------------------------------------------
(* The operands of the parser                                              *)

(* The operands lie one after the other in the program: the m-th ends with  *)
(* the instruction h[m], and the spans V[m] lead through it.                *)
Operand(prog, t, h, V, x, m) ==
    /\ Fragment(prog, h[m - 1] + 1, h[m], x)
    /\ V[m] = Through(prog, t, x)
LaidOut(prog, ands, t, h, V) ==
    /\ prog \in Seq(Good) /\ ands \in Seq(Parts)
    /\ h \in [Nat -> Nat] /\ h[0] = 0 /\ h[Len(ands)] = Len(prog)
    /\ \A i, j \in 0 .. Len(ands) : i <= j => h[i] <= h[j]
    /\ V \in [Nat -> Spans(t)]
    /\ \A m \in 1 .. Len(ands) : Operand(prog, t, h, V, ands[m], m)

(* f[i] does not decrease.                                                  *)
LEMMA CountsGrow ==
  ASSUME NEW ators, NEW f, NEW ops, Counts(ators, f, ops), Len(ators) \in Nat,
         NEW j \in 1 .. Len(ators)
  PROVE  \A i \in 1 .. j : f[i] <= f[j]
<1> DEFINE P == {m \in 0 .. j : m >= 1 => \A i \in 1 .. m : f[i] <= f[m]}
<1>1. 0 \in P
  <2>1. 0 \in 0 .. j
    OBVIOUS
  <2> QED BY <2>1
<1>2. ASSUME NEW m \in 1 .. j, m - 1 \in P
      PROVE  m \in P
  <2>1. CASE m = 1
    <3>1. f[1] = 0
      BY DEF Counts
    <3>2. \A i \in 1 .. m : f[i] <= f[m]
      BY <2>1, <3>1
    <3> QED BY <3>2
  <2>2. CASE m > 1
    <3>1. m \in 2 .. Len(ators)
      BY <2>2
    <3>a. /\ f[m] \in Nat /\ f[m - 1] \in Nat
          /\ ators[m].op \in ops => f[m] = f[m - 1] + 1
          /\ ators[m].op \notin ops => f[m] = f[m - 1]
      <4> HIDE DEF P
      <4> QED BY <3>1, CountsAt
    <3>2. f[m - 1] \in Nat /\ f[m] \in Nat /\ f[m - 1] <= f[m]
      BY <3>a
    <3>3. \A i \in 1 .. m - 1 : f[i] <= f[m - 1]
      BY <1>2, <2>2
    <3>4. \A i \in 1 .. m - 1 : f[i] \in Nat
      <4>1. f \in [Nat -> Nat]
        BY DEF Counts
      <4>2. \A i \in 1 .. m - 1 : i \in Nat
        BY <2>2
      <4> QED BY ONLY <4>1, <4>2
    <3>5. \A i \in 1 .. m : f[i] <= f[m]
      BY <3>2, <3>3, <3>4
    <3> QED BY <3>5
  <2> QED BY <2>1, <2>2
<1>3. P = 0 .. j
  <2> HIDE DEF P
  <2>1. P \in SUBSET (0 .. j)
    BY DEF P
  <2> QED BY <2>1, <1>1, <1>2, UpTo
<1>4. j \in P
  BY <1>3
<1> QED BY <1>4

(* The last operands give way to one, or one more joins them.               *)
OperandMade(prog, new, ands, ands2, t, h, n, R) ==
    /\ n \in 1 .. Len(ands) + 1
    /\ Becomes(prog, new, t, h[n - 1] + 1, ands2[n], R)
    /\ ands2 \in Seq(Parts) /\ Len(ands2) = n
    /\ \A i \in 1 .. n - 1 : ands2[i] = ands[i]
Relaid(new, ands2, t, V, n, R) ==
    \E h2, V2 : /\ LaidOut(new, ands2, t, h2, V2)
                /\ V2[n] = R
                /\ \A i \in 1 .. n - 1 : V2[i] = V[i]

LEMMA OperandReplaced ==
  ASSUME NEW prog, NEW ands, NEW t \in Seq(Nat), NEW h, NEW V, LaidOut(prog, ands, t, h, V),
         NEW new, NEW ands2, NEW n, NEW R, OperandMade(prog, new, ands, ands2, t, h, n, R)
  PROVE  Relaid(new, ands2, t, V, n, R)
<1> DEFINE lo == h[n - 1] + 1
           x == ands2[n]
<1>30. /\ n \in 1 .. Len(ands) + 1 /\ Becomes(prog, new, t, lo, x, R)
       /\ ands2 \in Seq(Parts) /\ Len(ands2) = n
       /\ \A i \in 1 .. n - 1 : ands2[i] = ands[i]
  BY DEF OperandMade
<1>31. lo = h[n - 1] + 1 /\ x = ands2[n]
  OBVIOUS
<1> USE <1>30, <1>31
<1> HIDE DEF lo, x
<1> DEFINE h2 == [h EXCEPT ![n] = Len(new)]
           V2 == [V EXCEPT ![n] = R]
<1>1. /\ n \in Nat \ {0} /\ n - 1 \in Nat /\ n - 1 \in 0 .. Len(ands) /\ Len(ands) \in Nat
      /\ n # 0 /\ n \in 1 .. n /\ n - 1 <= Len(ands) /\ Len(ands) \in 0 .. Len(ands)
  <2> HIDE DEF h2, V2
  <2>1. ands \in Seq(Parts)
    BY DEF LaidOut
  <2>2. Len(ands) \in Nat
    BY <2>1, LenProperties
  <2> HIDE <1>30, <1>31
  <2>3. n \in 1 .. Len(ands) + 1
    BY <1>30
  <2> QED
    BY <2>2, <2>3
<1>2. /\ h \in [Nat -> Nat] /\ V \in [Nat -> Spans(t)] /\ new \in Seq(Good) /\ prog \in Seq(Good)
      /\ Len(new) \in Nat /\ Len(prog) \in Nat /\ h[n - 1] \in Nat /\ lo \in Nat \ {0}
  <2>1. h \in [Nat -> Nat] /\ V \in [Nat -> Spans(t)] /\ prog \in Seq(Good)
    BY DEF LaidOut
  <2>2. new \in Seq(Good)
    BY DEF Becomes
  <2>3. Len(new) \in Nat /\ Len(prog) \in Nat
    BY <2>1, <2>2, LenProperties
  <2>4. h[n - 1] \in Nat
    BY <1>1, <2>1
  <2>5. lo \in Nat \ {0}
    BY <2>4
  <2> QED BY <2>1, <2>2, <2>3, <2>4, <2>5
<1>3. R \in Spans(t)
  BY ThroughRelates DEF Becomes, Spans
<1>4. /\ h2 \in [Nat -> Nat] /\ V2 \in [Nat -> Spans(t)] /\ h2[n] = Len(new) /\ V2[n] = R
      /\ \A m \in 0 .. n - 1 : h2[m] = h[m] /\ V2[m] = V[m]
  <2>1. \A m \in 0 .. n - 1 : m \in Nat /\ m # n
    BY <1>1
  <2>2. n \in Nat
    BY <1>1
  <2> QED BY <2>1, <2>2, <1>2, <1>3
<1> HIDE DEF h2, V2
<1>20. \A i, j \in 0 .. Len(ands) : i <= j => h[i] <= h[j]
  BY DEF LaidOut
<1>5. \A i \in 0 .. n - 1 : h[i] \in Nat /\ h[i] <= h[n - 1]
  <2>1. \A i \in 0 .. n - 1 : i \in 0 .. Len(ands) /\ i <= n - 1 /\ i \in Nat
    BY <1>1
  <2> QED BY <2>1, <1>1, <1>2, <1>20
<1>6. lo <= Len(new)
  BY DEF Becomes
<1>7. h[n - 1] <= Len(prog) /\ h[n - 1] <= Len(new)
  <2>1. h[n - 1] <= h[Len(ands)]
    BY <1>1, <1>20
  <2> QED BY <2>1, <1>2, <1>6 DEF LaidOut
<1>8. ASSUME NEW i \in 0 .. n, NEW j \in 0 .. n, i <= j
      PROVE  h2[i] <= h2[j]
  <2>1. CASE j = n /\ i = n
    BY <2>1, <1>4, <1>2
  <2>2. CASE j = n /\ i # n
    <3>1. i \in 0 .. n - 1
      BY <2>2, <1>1
    <3>2. h2[i] = h[i] /\ h[i] \in Nat /\ h[i] <= h[n - 1] /\ h2[j] = Len(new)
      BY <3>1, <2>2, <1>4, <1>5
    <3> QED BY <3>2, <1>7, <1>2
  <2>3. CASE j # n
    <3>1. i \in 0 .. n - 1 /\ j \in 0 .. n - 1 /\ i \in 0 .. Len(ands) /\ j \in 0 .. Len(ands)
      BY <2>3, <1>1, <1>8
    <3>2. h[i] <= h[j]
      BY <3>1, <1>8 DEF LaidOut
    <3> QED BY <3>1, <3>2, <1>4
  <2> QED BY <2>1, <2>2, <2>3
<1>9. ASSUME NEW m \in 1 .. n - 1
      PROVE  Operand(new, t, h2, V2, ands2[m], m)
  <2>1. /\ m \in 1 .. Len(ands) /\ m - 1 \in 0 .. n - 1 /\ m \in 0 .. n - 1 /\ ands2[m] = ands[m]
        /\ m - 1 \in 0 .. n /\ m \in Nat
    BY <1>1
  <2>2. Operand(prog, t, h, V, ands[m], m)
    BY <2>1 DEF LaidOut
  <2>3. h2[m] = h[m] /\ h2[m - 1] = h[m - 1] /\ V2[m] = V[m] /\ h[m] \in Nat /\ h[m - 1] \in Nat
    BY <2>1, <1>4, <1>5
  <2>4. h[m] <= h[n - 1]
    BY <2>1, <1>5
  <2> DEFINE l == h[m - 1] + 1
             k == h[m]
  <2>5. l \in Nat \ {0} /\ k \in Nat /\ k <= Len(prog) /\ k <= Len(new) /\ k <= lo - 1
    <3>1. h[m - 1] + 1 \in Nat \ {0} /\ h[m] \in Nat
      BY <2>3
    <3>2. h[m] \in Nat /\ h[n - 1] \in Nat /\ Len(prog) \in Nat /\ Len(new) \in Nat
      BY <2>3, <1>2
    <3>3. lo - 1 = h[n - 1]
      BY <3>2
    <3>4. h[m] <= Len(prog) /\ h[m] <= Len(new) /\ h[m] <= lo - 1
      BY <3>2, <3>3, <2>4, <1>7
    <3> QED BY <3>1, <3>4
  <2>6. Fragment(prog, l, k, ands[m]) /\ V[m] = Through(prog, t, ands[m])
    BY <2>2 DEF Operand
  <2> HIDE DEF l, k
  <2>7. Same(prog, new, l, k)
    <3>1. \A p \in l .. k : p \in 1 .. lo - 1
      <4>1. lo \in Nat \ {0}
        BY <1>2
      <4> HIDE <1>2
      <4> QED BY <2>5, <4>1
    <3> QED BY <3>1 DEF Same, Becomes
  <2>8. prog \in Seq(Instructions) /\ new \in Seq(Instructions)
    BY <1>2, GoodIsInstruction
  <2>9. Fragment(new, l, k, ands[m]) /\ Through(new, t, ands[m]) = Through(prog, t, ands[m])
    BY <2>5, <2>6, <2>7, <2>8, Untouched
  <2> QED BY <2>9, <2>6, <2>3, <2>1 DEF Operand, l, k
<1>10. Operand(new, t, h2, V2, ands2[n], n)
  <2>1. n - 1 \in 0 .. n - 1
    BY <1>1
  <2>2. h2[n - 1] + 1 = lo /\ h2[n] = Len(new) /\ V2[n] = R
    BY <2>1, <1>4
  <2> QED BY <2>2 DEF Operand, Becomes
<1>11. \A m \in 1 .. n : m = n \/ m \in 1 .. n - 1
  BY <1>1
<1>12. \A m \in 1 .. n : Operand(new, t, h2, V2, ands2[m], m)
  BY <1>9, <1>10, <1>11
<1>13. 0 \in 0 .. n - 1
  BY <1>1
<1>14. h2[0] = 0
  BY <1>13, <1>4 DEF LaidOut
<1>15. LaidOut(new, ands2, t, h2, V2)
  BY <1>2, <1>4, <1>8, <1>12, <1>14 DEF LaidOut
<1>16. \A m \in 1 .. n - 1 : m \in 0 .. n - 1
  BY <1>1
<1>17. V2[n] = R /\ \A m \in 1 .. n - 1 : V2[m] = V[m]
  BY <1>1, <1>4, <1>16
<1> QED BY <1>15, <1>17, Zenon DEF Relaid

(* What an operator makes of what its operands stand for.                   *)
Result(op, R, S, t) ==
    IF op \in Unary THEN Repeated(op, S, t)
    ELSE IF op = "(" THEN S
    ELSE IF op = "|" THEN R \cup S ELSE Joined(R, S)

LEMMA LastOperandLaid ==
  ASSUME NEW prog, NEW ands, NEW t \in Seq(Nat), NEW h, NEW V, LaidOut(prog, ands, t, h, V),
         NEW m, m = Len(ands), 1 <= m, NEW lo, lo = h[m - 1] + 1
  PROVE  LastOperand(prog, lo, ands[m]) /\ V[m] = Through(prog, t, ands[m])
<1>1. m \in Nat /\ m \in 1 .. Len(ands) /\ m - 1 \in Nat
  BY DEF LaidOut
<1>2. Operand(prog, t, h, V, ands[m], m) /\ h \in [Nat -> Nat] /\ h[m] = Len(prog)
  BY <1>1 DEF LaidOut
<1>3. h[m - 1] \in Nat
  BY <1>1, <1>2
<1>4. lo \in Nat \ {0}
  BY <1>3
<1> QED BY <1>2, <1>4 DEF Operand, LastOperand, LaidOut

LastTwo(ands, n, m) == m = Len(ands) /\ n = m - 1 /\ 1 <= n

LEMMA LastOperandsLaid ==
  ASSUME NEW prog, NEW ands, NEW t \in Seq(Nat), NEW h, NEW V, LaidOut(prog, ands, t, h, V),
         NEW m, NEW n, LastTwo(ands, n, m)
  PROVE  /\ LastOperands(prog, h[n - 1] + 1, h[n], ands[n], ands[m])
         /\ V[m] = Through(prog, t, ands[m]) /\ V[n] = Through(prog, t, ands[n])
<1>1. /\ m \in Nat /\ m \in 1 .. Len(ands) /\ n \in Nat /\ n \in 1 .. Len(ands) /\ n - 1 \in Nat
      /\ m - 1 = n
  <2>1. Len(ands) \in Nat
    BY LenProperties DEF LaidOut
  <2> QED BY <2>1 DEF LastTwo
<1>2. /\ Operand(prog, t, h, V, ands[m], m) /\ Operand(prog, t, h, V, ands[n], n)
      /\ h \in [Nat -> Nat] /\ h[m] = Len(prog)
  BY <1>1 DEF LaidOut, LastTwo
<1>3. h[n - 1] \in Nat /\ h[n] \in Nat
  BY <1>1, <1>2
<1> DEFINE lo == h[n - 1] + 1
<1>4. lo \in Nat \ {0} /\ h[n] + 1 \in Nat
  BY <1>3
<1>5. prog \in Seq(Good) /\ Len(prog) \in Nat
  BY LenProperties DEF LaidOut
<1>6. Fragment(prog, lo, h[n], ands[n]) /\ Fragment(prog, h[n] + 1, Len(prog), ands[m])
  BY <1>1, <1>2 DEF Operand
<1>7. h[n] + 1 <= Len(prog)
  BY <1>4, <1>5, <1>6, FragmentSize
<1>8. h[n] < Len(prog)
  BY <1>3, <1>5, <1>7
<1>9. ands[m] \in Parts /\ ands[n] \in Parts
  <2>1. ands \in Seq(Parts)
    BY DEF LaidOut
  <2> QED BY <1>1, <2>1, ElementOfSeq
<1>10. V[m] = Through(prog, t, ands[m]) /\ V[n] = Through(prog, t, ands[n])
  BY <1>2 DEF Operand
<1> QED BY <1>3, <1>4, <1>5, <1>6, <1>8, <1>9, <1>10 DEF LastOperands

(* A reduction lays out what it makes.                                      *)
LEMMA ReducedOperands ==
  ASSUME NEW p \in Parsers, NEW q \in Parsers, Reduced(p, q), Len(p.ators) >= 1,
         NEW op, op = TopOp(p), op # "sentinel",
         NEW t \in Seq(Nat), NEW h, NEW V, LaidOut(p.prog, p.ands, t, h, V),
         NEW m, m = Len(p.ands), NEW n, n = Len(q.ands)
  PROVE  Relaid(q.prog, q.ands, t, V, n, Result(op, V[m - 1], V[m], t))
<1>1. /\ p.prog \in Seq(Good) /\ p.ands \in Seq(Parts) /\ p.ators \in Seq(Ators)
      /\ q.ands \in Seq(Parts)
  BY DEF Parsers
<1>2. m \in Nat /\ n \in Nat /\ Len(p.ators) \in 1 .. Len(p.ators)
  BY <1>1, LenProperties
<1>3. p.ators[Len(p.ators)] \in Ators
  BY <1>1, <1>2, ElementOfSeq
<1> DEFINE subid == p.ators[Len(p.ators)].subid
           made == MadeOf(p)
<1>4. op \in {"("} \cup Binary \cup Unary /\ (op = "(" => subid \in 1 .. NSubexp - 1)
  BY <1>3 DEF TopOp, Ators
<1>5. made = Applied(p.prog, op, subid, p.ands[m - 1], p.ands[m])
  BY DEF MadeOf
<1>6. /\ Arity(op) <= m /\ n = m - Arity(op) + 1
      /\ q.prog = made.prog /\ q.ands[n] = made.node
      /\ \A i \in 1 .. n - 1 : q.ands[i] = p.ands[i]
  BY DEF Reduced
<1> HIDE DEF subid, made
<1>7. ASSUME op \notin Binary
      PROVE  n = m /\ 1 <= m
  BY <1>6, <1>7, <1>2 DEF Arity
<1>8. ASSUME op \in Binary
      PROVE  n = m - 1 /\ 2 <= m
  BY <1>6, <1>8, <1>2 DEF Arity
<1> DEFINE lo == h[n - 1] + 1
           R == Result(op, V[m - 1], V[m], t)
<1>20. lo = h[n - 1] + 1
  OBVIOUS
<1> HIDE DEF lo
<1>9. Becomes(p.prog, made.prog, t, lo, made.node, R)
  <2>1. CASE op \in Unary
    <3>1. op \notin Binary
      BY <2>1 DEF Unary, Binary
    <3>4. 1 <= m /\ lo = h[m - 1] + 1
      BY <3>1, <1>7, <1>20
    <3>2. LastOperand(p.prog, lo, p.ands[m]) /\ V[m] = Through(p.prog, t, p.ands[m])
      BY <3>4, LastOperandLaid
    <3>3. R = Repeated(op, V[m], t)
      BY <2>1 DEF Result
    <3> HIDE DEF lo, R
    <3> QED BY <2>1, <3>2, <3>3, <1>5, UnaryIsCompiled
  <2>2. CASE op = "("
    <3>1. op \notin Binary /\ op \notin Unary
      BY <2>2 DEF Unary, Binary
    <3>4. 1 <= m /\ lo = h[m - 1] + 1
      BY <3>1, <1>7, <1>20
    <3>2. LastOperand(p.prog, lo, p.ands[m]) /\ V[m] = Through(p.prog, t, p.ands[m])
      BY <3>4, LastOperandLaid
    <3>3. R = V[m]
      BY <2>2, <3>1 DEF Result
    <3> HIDE DEF lo, R
    <3> QED BY <2>2, <3>2, <3>3, <1>4, <1>5, GroupIsCompiled
  <2>3. CASE op \in Binary
    <3>1. op \notin Unary /\ op # "("
      BY <2>3 DEF Unary, Binary
    <3>2. n = m - 1 /\ m - 1 = n
      BY <2>3, <1>8, <1>2
    <3>3. /\ LastOperands(p.prog, lo, h[n], p.ands[n], p.ands[m])
          /\ V[m] = Through(p.prog, t, p.ands[m]) /\ V[n] = Through(p.prog, t, p.ands[n])
      <4>1. LastTwo(p.ands, n, m)
        BY <2>3, <1>8 DEF LastTwo
      <4> QED BY <4>1, <1>20, LastOperandsLaid
    <3>4. R = IF op = "|" THEN V[n] \cup V[m] ELSE Joined(V[n], V[m])
      BY <3>1, <3>2 DEF Result
    <3>5. made = Applied(p.prog, op, subid, p.ands[n], p.ands[m])
      BY <1>5, <3>2
    <3> HIDE DEF lo, R
    <3> QED BY <2>3, <3>3, <3>4, <3>5, BinaryIsCompiled
  <2> QED BY <1>4, <2>1, <2>2, <2>3
<1>10. n \in 1 .. m + 1
  <2>1. CASE op \in Binary
    BY <2>1, <1>8, <1>2
  <2>2. CASE op \notin Binary
    BY <2>2, <1>7, <1>2
  <2> QED BY <2>1, <2>2
<1> HIDE DEF R
<1>11. Relaid(made.prog, q.ands, t, V, n, R)
  <2>1. n \in 1 .. Len(p.ands) + 1
    BY <1>10
  <2>2. OperandMade(p.prog, made.prog, p.ands, q.ands, t, h, n, R)
    BY <1>1, <1>6, <1>9, <2>1, <1>20 DEF OperandMade
  <2> QED BY <2>2, OperandReplaced
<1> QED BY <1>11, <1>6 DEF R

-----------------------------------------------------------------------------
(* What has been read                                                      *)

(* The tokens after the a-th up to the b-th are a piece, a branch or a tree *)
(* that stands for R.                                                      *)
Spells(ts, t, kind, a, b, R) == Means(ts, t, kind, a + 1, b, R)
Opens == {"sentinel", "("}

(* What stands before the i-th operator, which was read as the token at[i]: *)
(* before a bar is a tree, before a concatenation a branch, and each is the *)
(* operand nd[i].                                                          *)
Standing(ators, nd, V, ts, t, at, i) ==
    \/ /\ ators[i].op = "("
       /\ at[i] = at[i - 1] + 1 /\ ts[at[i]].kind = "("
    \/ /\ ators[i].op = "|" /\ ators[i - 1].op \in Opens
       /\ ts[at[i]].kind = "|"
       /\ \E b : at[i] = b + 1 /\ Spells(ts, t, "tree", at[i - 1], b, V[nd[i]])
    \/ /\ ators[i].op = "cat" /\ ators[i - 1].op \in Opens \cup {"|"}
       /\ Spells(ts, t, "branch", at[i - 1], at[i], V[nd[i]])

(* The operators of one operand are on top, from the u-th on.               *)
Structured(ators, nd, V, ts, t, at, u) ==
    /\ u \in 1 .. Len(ators) /\ at \in [Nat -> Nat] /\ at[1] = 0
    /\ \A i \in 1 .. Len(ators) : ators[i].op \in Unary <=> i > u
    /\ \A i \in 2 .. u : Standing(ators, nd, V, ts, t, at, i)

(* Those are yet to be applied to R: w[i] is what the ones above the i-th    *)
(* make of it.                                                             *)
Applying(ators, u, w, t, R) ==
    /\ w \in [Nat -> Spans(t)] /\ w[Len(ators)] = R
    /\ \A i \in u + 1 .. Len(ators) : w[i - 1] = Repeated(ators[i].op, w[i], t)

(* What the last operand may be under the operator op, when the operators    *)
(* that bind as tightly as pri are reduced.                                *)
Fits(kind, op, pri) ==
    \/ kind = "piece"
    \/ kind = "branch" /\ op \in Opens \cup {"|"} /\ pri \notin Unary
    \/ kind = "tree" /\ op \in Opens /\ pri \notin Unary \cup {"cat"}

(* The first k tokens end with an operand, or with an operator that has to   *)
(* have one more.                                                          *)
Had(ators, nd, V, ts, t, k, at, u, w, m, pri) ==
    /\ Structured(ators, nd, V, ts, t, at, u)
    /\ Applying(ators, u, w, t, V[m])
    /\ \E kind : Fits(kind, ators[Len(ators)].op, pri) /\ Spells(ts, t, kind, at[u], k, w[u])
Have(p, nd, ts, t, k, pri) ==
    \E h, V, at, u, w :
       /\ LaidOut(p.prog, p.ands, t, h, V) /\ Len(p.ands) = nd[Len(p.ators)] + 1
       /\ Had(p.ators, nd, V, ts, t, k, at, u, w, Len(p.ands), pri)
Want(p, nd, ts, t, k) ==
    \E h, V, at :
       /\ LaidOut(p.prog, p.ands, t, h, V) /\ Len(p.ands) = nd[Len(p.ators)]
       /\ Structured(p.ators, nd, V, ts, t, at, Len(p.ators)) /\ at[Len(p.ators)] = k

(* The operators below the last one, with the same operands.                *)
Cut(ators, ators2, nd, V, V2) ==
    /\ Len(ators) \in Nat /\ Len(ators2) = Len(ators) - 1 /\ Len(ators2) >= 1
    /\ \A i \in 1 .. Len(ators2) : ators2[i] = ators[i]
    /\ \A i \in 2 .. Len(ators2) : ators[i].op \in Binary => V2[nd[i]] = V[nd[i]]

LEMMA StructureCut ==
  ASSUME NEW ators, NEW ators2, NEW nd, NEW V, NEW V2, Cut(ators, ators2, nd, V, V2),
         NEW ts, NEW t, NEW at, NEW u, Structured(ators, nd, V, ts, t, at, u),
         NEW u2, u2 = IF u = Len(ators) THEN Len(ators2) ELSE u
  PROVE  Structured(ators2, nd, V2, ts, t, at, u2)
<1>1. /\ Len(ators) \in Nat /\ Len(ators2) \in Nat /\ Len(ators2) = Len(ators) - 1
      /\ Len(ators2) >= 1 /\ u \in 1 .. Len(ators)
  BY DEF Cut, Structured
<1>2. u2 \in 1 .. Len(ators2) /\ u2 <= u
  BY <1>1
<1>3. \A i \in 1 .. Len(ators2) : ators2[i].op \in Unary <=> i > u2
  <2>1. SUFFICES ASSUME NEW i \in 1 .. Len(ators2)
                 PROVE  ators2[i].op \in Unary <=> i > u2
    OBVIOUS
  <2>2. i \in 1 .. Len(ators) /\ i # Len(ators) /\ (i > u <=> i > u2)
    BY <1>1
  <2>3. ators2[i] = ators[i]
    BY DEF Cut
  <2> QED BY <2>2, <2>3 DEF Structured
<1>4. ASSUME NEW i \in 2 .. u2
      PROVE  Standing(ators2, nd, V2, ts, t, at, i)
  <2>1. /\ i \in 2 .. u /\ i \in 1 .. Len(ators2) /\ i - 1 \in 1 .. Len(ators2)
        /\ i \in 2 .. Len(ators2)
    BY <1>1, <1>2
  <2>2. ators2[i] = ators[i] /\ ators2[i - 1] = ators[i - 1]
    BY <2>1 DEF Cut
  <2>3. Standing(ators, nd, V, ts, t, at, i)
    BY <2>1 DEF Structured
  <2>4. ators[i].op \in {"|", "cat"} => V2[nd[i]] = V[nd[i]]
    BY <2>1 DEF Cut, Binary
  <2> QED BY <2>2, <2>3, <2>4 DEF Standing
<1> QED BY <1>2, <1>3, <1>4 DEF Structured

(* A reduction cuts off the last operator, and its result is the operand     *)
(* after those of the operators that are left.                             *)
Reducing(p, q, nd, nb) ==
    Stacked(p, nd, nb) /\ p.err = "none" /\ TopOp(p) # "sentinel" /\ q = Reduce(p) /\ q.err = "none"
CutTo(p, q, nd, t, V, R) ==
    \E h2, V2 : /\ LaidOut(q.prog, q.ands, t, h2, V2) /\ Len(q.ands) = nd[Len(q.ators)] + 1
                /\ Cut(p.ators, q.ators, nd, V, V2)
                /\ V2[Len(q.ands)] = R

LEMMA ReducingIs ==
  ASSUME NEW p, NEW q, NEW nd, NEW nb, Reducing(p, q, nd, nb)
  PROVE  /\ p \in Parsers /\ q \in Parsers /\ Stacked(q, nd, nb) /\ Reduced(p, q)
         /\ Len(p.ators) \in Nat /\ Len(q.ators) \in Nat /\ Len(p.ators) >= 2
         /\ Len(q.ators) = Len(p.ators) - 1 /\ Len(q.ators) >= 1
         /\ p.ators \in Seq(Ators) /\ Balanced(p, q, nd, nb)
<1>1. Stacked(q, nd, nb) /\ Reduced(p, q) /\ Len(p.ators) >= 2 /\ Balanced(p, q, nd, nb)
  BY ReduceCounts DEF Reducing
<1>2. p \in Parsers /\ q \in Parsers
  BY <1>1 DEF Stacked, Reducing
<1>3. p.ators \in Seq(Ators) /\ q.ators \in Seq(Ators)
  BY <1>2 DEF Parsers
<1>4. Len(p.ators) \in Nat /\ Len(q.ators) \in Nat
  BY <1>3, LenProperties
<1>5. Len(q.ators) = Len(p.ators) - 1
  BY <1>1 DEF Reduced
<1>6. Len(q.ators) >= 1
  BY <1>1, <1>4, <1>5
<1> QED BY <1>1, <1>2, <1>3, <1>4, <1>5, <1>6

LEMMA ReducingCuts ==
  ASSUME NEW p, NEW q, NEW nd, NEW nb, Reducing(p, q, nd, nb),
         NEW t \in Seq(Nat), NEW h, NEW V, LaidOut(p.prog, p.ands, t, h, V),
         Len(p.ands) = nd[Len(p.ators)] + 1
  PROVE  CutTo(p, q, nd, t, V, Result(TopOp(p), V[nd[Len(p.ators)]], V[Len(p.ands)], t))
<1> DEFINE L == Len(p.ators)
           L2 == Len(q.ators)
           m == Len(p.ands)
           n == Len(q.ands)
<1>1. /\ p \in Parsers /\ q \in Parsers /\ Stacked(q, nd, nb) /\ Reduced(p, q)
      /\ L \in Nat /\ L2 \in Nat /\ L >= 2 /\ L2 = L - 1 /\ L2 >= 1
      /\ p.ators \in Seq(Ators) /\ Balanced(p, q, nd, nb)
  BY ReducingIs
<1>2. Counts(p.ators, nd, Binary) /\ nd \in [Nat -> Nat]
  BY DEF Reducing, Stacked, Counts
<1>3. /\ nd[L] \in Nat /\ nd[L2] \in Nat /\ m \in Nat /\ n \in Nat
  <2>1. p.ands \in Seq(Parts) /\ q.ands \in Seq(Parts)
    BY <1>1 DEF Parsers
  <2> QED BY <1>1, <1>2, <2>1, LenProperties
<1>4. m = nd[L] + 1
  OBVIOUS
<1>5. nd[L2] - n = nd[L] - m
  BY <1>1 DEF Balanced
<1>6. n = nd[L2] + 1 /\ n - 1 = nd[L2] /\ m - 1 = nd[L]
  <2> DEFINE a == nd[L]
             b == nd[L2]
  <2> HIDE DEF a, b, m, n
  <2>1. a \in Nat /\ b \in Nat /\ m \in Nat /\ n \in Nat /\ m = a + 1 /\ b - n = a - m
    BY <1>3, <1>4, <1>5 DEF a, b
  <2>2. n = b + 1 /\ n - 1 = b /\ m - 1 = a
    BY <2>1
  <2> QED BY <2>2 DEF a, b
<1>7. \A i \in 1 .. L2 : p.ators[i] = q.ators[i]
  BY <1>1 DEF Reduced
<1>8. p.err = "none" /\ TopOp(p) # "sentinel" /\ Len(p.ators) >= 1
  BY <1>1 DEF Reducing
<1> DEFINE R == Result(TopOp(p), V[m - 1], V[m], t)
<1>9. Relaid(q.prog, q.ands, t, V, n, R)
  BY <1>1, <1>8, ReducedOperands
<1>10. R = Result(TopOp(p), V[nd[L]], V[m], t)
  BY <1>6
<1> HIDE DEF R
<1>11. PICK h2, V2 : /\ LaidOut(q.prog, q.ands, t, h2, V2)
                     /\ V2[n] = R
                     /\ \A i \in 1 .. n - 1 : V2[i] = V[i]
  BY <1>9 DEF Relaid
<1>12. ASSUME NEW i \in 2 .. L2, p.ators[i].op \in Binary
       PROVE  V2[nd[i]] = V[nd[i]]
  <2>1. i \in 2 .. L /\ i \in 1 .. L2 /\ L2 \in 1 .. L /\ L \in Nat
    BY <1>1
  <2>5. Counts(p.ators, nd, Binary) /\ p.ators[i].op \in Binary
    BY <1>2, <1>12
  <2>2. nd[i] = nd[i - 1] + 1 /\ nd[i - 1] \in Nat /\ nd[i] \in Nat
    BY <2>1, <2>5, CountsAt
  <2>3. nd[i] <= nd[L2]
    BY <2>1, <1>2, CountsGrow
  <2>4. nd[i] \in 1 .. n - 1
    <3> DEFINE a == nd[i]
               b == nd[i - 1]
    <3>1. a = b + 1 /\ b \in Nat /\ a \in Nat /\ a <= n - 1 /\ n \in Nat
      BY <2>2, <2>3, <1>6, <1>3
    <3> HIDE DEF a, b, n
    <3>2. a \in 1 .. n - 1
      BY ONLY <3>1
    <3> QED BY <3>2 DEF a, n
  <2> QED BY <2>4, <1>11
<1>13. Cut(p.ators, q.ators, nd, V, V2)
  BY <1>1, <1>7, <1>12 DEF Cut
<1> QED BY <1>6, <1>10, <1>11, <1>13 DEF CutTo

(* An operator of one operand is applied.                                   *)
LEMMA UnaryIsApplied ==
  ASSUME NEW p, NEW q, NEW nd, NEW nb, Reducing(p, q, nd, nb), TopOp(p) \in Unary,
         NEW ts, NEW t \in Seq(Nat), NEW k, NEW pri, Have(p, nd, ts, t, k, pri)
  PROVE  Have(q, nd, ts, t, k, pri)
<1> DEFINE L == Len(p.ators)
           L2 == Len(q.ators)
<1>1. PICK h, V, at, u, w :
          /\ LaidOut(p.prog, p.ands, t, h, V) /\ Len(p.ands) = nd[L] + 1
          /\ Had(p.ators, nd, V, ts, t, k, at, u, w, Len(p.ands), pri)
  BY DEF Have
<1>2. /\ Structured(p.ators, nd, V, ts, t, at, u)
      /\ Applying(p.ators, u, w, t, V[Len(p.ands)])
  BY <1>1 DEF Had
<1>3. PICK kind : Fits(kind, TopOp(p), pri) /\ Spells(ts, t, kind, at[u], k, w[u])
  BY <1>1 DEF Had, TopOp
<1>4. kind = "piece"
  BY <1>3 DEF Fits, Unary, Opens
<1>5. L \in Nat /\ L2 \in Nat /\ L >= 2 /\ L2 = L - 1 /\ L2 >= 1
  BY ReducingIs
<1>6. u \in 1 .. L /\ u # L /\ L \in 1 .. L
  BY <1>2, <1>5 DEF Structured, TopOp
<1>12. CutTo(p, q, nd, t, V, Result(TopOp(p), V[nd[L]], V[Len(p.ands)], t))
  BY <1>1, ReducingCuts
<1>7. PICK h2, V2 :
          /\ LaidOut(q.prog, q.ands, t, h2, V2) /\ Len(q.ands) = nd[L2] + 1
          /\ Cut(p.ators, q.ators, nd, V, V2)
          /\ V2[Len(q.ands)] = Result(TopOp(p), V[nd[L]], V[Len(p.ands)], t)
  BY <1>12 DEF CutTo
<1>8. Structured(q.ators, nd, V2, ts, t, at, u)
  BY <1>2, <1>6, <1>7, StructureCut
<1>9. Applying(q.ators, u, w, t, V2[Len(q.ands)])
  <2>1. L \in u + 1 .. L /\ \A i \in u + 1 .. L2 : i \in u + 1 .. L /\ i \in 1 .. L2
    BY <1>5, <1>6
  <2>2. w[L - 1] = Repeated(TopOp(p), w[L], t) /\ w[L] = V[Len(p.ands)]
    BY <1>2, <2>1 DEF Applying, TopOp
  <2>3. w[L2] = V2[Len(q.ands)]
    BY <2>2, <1>7, <1>5 DEF Result
  <2>4. \A i \in u + 1 .. L2 : w[i - 1] = Repeated(q.ators[i].op, w[i], t)
    BY <2>1, <1>2, <1>7 DEF Applying, Cut
  <2> QED BY <1>2, <2>3, <2>4 DEF Applying
<1>10. \A op : Fits(kind, op, pri)
  BY <1>4 DEF Fits
<1>11. Had(q.ators, nd, V2, ts, t, k, at, u, w, Len(q.ands), pri)
  BY <1>3, <1>8, <1>9, <1>10 DEF Had
<1> QED BY <1>7, <1>11 DEF Have

(* Any other operator makes one of its operands and what stood before it.    *)
LEMMA OthersAreApplied ==
  ASSUME NEW p, NEW q, NEW nd, NEW nb, Reducing(p, q, nd, nb), TopOp(p) \notin Unary,
         NEW ts \in Seq(Lexemes), NEW t \in Seq(Nat), NEW V, NEW at,
         Structured(p.ators, nd, V, ts, t, at, Len(p.ators)),
         NEW R, CutTo(p, q, nd, t, V, R),
         NEW k, NEW pri, NEW kind, Fits(kind, q.ators[Len(q.ators)].op, pri),
         Spells(ts, t, kind, at[Len(q.ators)], k, R)
  PROVE  Have(q, nd, ts, t, k, pri)
<1> DEFINE L2 == Len(q.ators)
<1>1. PICK h2, V2 :
          /\ LaidOut(q.prog, q.ands, t, h2, V2) /\ Len(q.ands) = nd[L2] + 1
          /\ Cut(p.ators, q.ators, nd, V, V2)
          /\ V2[Len(q.ands)] = R
  BY DEF CutTo
<1>2. Structured(q.ators, nd, V2, ts, t, at, L2)
  BY <1>1, StructureCut
<1>3. R \in Spans(t)
  BY MeansTyped DEF Spells, Spans
<1> DEFINE w == [i \in Nat |-> R]
<1>4. L2 \in Nat
  BY ReducingIs
<1>5. w \in [Nat -> Spans(t)] /\ w[L2] = R /\ L2 + 1 .. L2 = {}
  BY <1>3, <1>4
<1> HIDE DEF w
<1>6. Applying(q.ators, L2, w, t, V2[Len(q.ands)])
  BY <1>1, <1>5 DEF Applying
<1>7. Had(q.ators, nd, V2, ts, t, k, at, L2, w, Len(q.ands), pri)
  BY <1>2, <1>5, <1>6 DEF Had
<1> QED BY <1>1, <1>7 DEF Have

(* What there is if the last operator does not have one operand.            *)
Ready(p, nd, ts, t, k, pri, h, V, at, kind) ==
    /\ LaidOut(p.prog, p.ands, t, h, V) /\ Len(p.ands) = nd[Len(p.ators)] + 1
    /\ Structured(p.ators, nd, V, ts, t, at, Len(p.ators))
    /\ Fits(kind, TopOp(p), pri)
    /\ Spells(ts, t, kind, at[Len(p.ators)], k, V[Len(p.ands)])

LEMMA HaveReady ==
  ASSUME NEW p, Len(p.ators) \in Nat \ {0}, TopOp(p) \notin Unary,
         NEW nd, NEW ts, NEW t, NEW k, NEW pri, Have(p, nd, ts, t, k, pri)
  PROVE  \E h, V, at, kind : Ready(p, nd, ts, t, k, pri, h, V, at, kind)
<1> DEFINE L == Len(p.ators)
<1>1. PICK h, V, at, u, w :
          /\ LaidOut(p.prog, p.ands, t, h, V) /\ Len(p.ands) = nd[L] + 1
          /\ Had(p.ators, nd, V, ts, t, k, at, u, w, Len(p.ands), pri)
  BY DEF Have
<1>2. /\ Structured(p.ators, nd, V, ts, t, at, u)
      /\ Applying(p.ators, u, w, t, V[Len(p.ands)])
  BY <1>1 DEF Had
<1>3. PICK kind : Fits(kind, TopOp(p), pri) /\ Spells(ts, t, kind, at[u], k, w[u])
  BY <1>1 DEF Had, TopOp
<1>4. u = L
  <2>1. L \in 1 .. L
    OBVIOUS
  <2>2. u \in 1 .. L /\ (TopOp(p) \in Unary <=> L > u)
    BY <1>2, <2>1 DEF Structured, TopOp
  <2> QED BY <2>2
<1>5. w[u] = V[Len(p.ands)]
  BY <1>2, <1>4 DEF Applying
<1>6. Ready(p, nd, ts, t, k, pri, h, V, at, kind)
  BY <1>1, <1>2, <1>3, <1>4, <1>5 DEF Ready
<1> QED BY <1>6

(* Two operands in a row become a branch.                                   *)
LEMMA CatIsApplied ==
  ASSUME NEW p, NEW q, NEW nd, NEW nb, Reducing(p, q, nd, nb), TopOp(p) = "cat",
         NEW ts \in Seq(Lexemes), NEW t \in Seq(Nat), NEW k, NEW pri, pri \notin Unary,
         Have(p, nd, ts, t, k, pri)
  PROVE  Have(q, nd, ts, t, k, pri)
<1> DEFINE L == Len(p.ators)
           L2 == Len(q.ators)
<1>0. L \in Nat /\ L2 \in Nat /\ L >= 2 /\ L2 = L - 1 /\ L2 >= 1 /\ Reduced(p, q)
  BY ReducingIs
<1>1. TopOp(p) \notin Unary /\ Len(p.ators) \in Nat \ {0}
  BY <1>0 DEF Unary
<1>2. PICK h, V, at, kind : Ready(p, nd, ts, t, k, pri, h, V, at, kind)
  BY <1>1, HaveReady
<1>3. kind = "piece"
  BY <1>2 DEF Ready, Fits, Opens
<1> DEFINE R == V[nd[L]]
           S == V[Len(p.ands)]
<1>4. L \in 2 .. L /\ L - 1 = L2 /\ L2 \in 1 .. Len(q.ators)
  BY <1>0
<1>5. Standing(p.ators, nd, V, ts, t, at, L)
  BY <1>2, <1>4 DEF Ready, Structured
<1>6. p.ators[L2].op \in Opens \cup {"|"} /\ Spells(ts, t, "branch", at[L2], at[L], R)
  BY <1>4, <1>5 DEF Standing, TopOp
<1>7. CutTo(p, q, nd, t, V, Result("cat", R, S, t))
  BY <1>2, ReducingCuts DEF Ready
<1>8. Result("cat", R, S, t) = Joined(R, S)
  BY DEF Result, Unary
<1>9. Spells(ts, t, "branch", at[L2], k, Joined(R, S))
  BY <1>2, <1>3, <1>6, JoinedMeans DEF Spells, Ready
<1>10. q.ators[L2] = p.ators[L2]
  BY <1>0, <1>4 DEF Reduced
<1>11. Fits("branch", q.ators[L2].op, pri)
  BY <1>6, <1>10 DEF Fits
<1> QED BY <1>1, <1>2, <1>7, <1>8, <1>9, <1>11, OthersAreApplied DEF Ready

(* A piece or a branch is a tree.                                           *)
LEMMA ItIsATree ==
  ASSUME NEW ts \in Seq(Lexemes), NEW t, NEW kind, NEW op, NEW pri, Fits(kind, op, pri),
         NEW a, NEW b, NEW R, Spells(ts, t, kind, a, b, R)
  PROVE  /\ Spells(ts, t, "tree", a, b, R)
         /\ op \notin Opens \/ kind # "tree" => Spells(ts, t, "branch", a, b, R)
  BY PieceMeans, BranchMeans DEF Spells, Fits

(* A tree, a bar and a branch become a tree.                                *)
LEMMA BarIsApplied ==
  ASSUME NEW p, NEW q, NEW nd, NEW nb, Reducing(p, q, nd, nb), TopOp(p) = "|",
         NEW ts \in Seq(Lexemes), NEW t \in Seq(Nat), NEW k, NEW pri, pri \notin Unary \cup {"cat"},
         Have(p, nd, ts, t, k, pri)
  PROVE  Have(q, nd, ts, t, k, pri)
<1> DEFINE L == Len(p.ators)
           L2 == Len(q.ators)
<1>0. L \in Nat /\ L2 \in Nat /\ L >= 2 /\ L2 = L - 1 /\ L2 >= 1 /\ Reduced(p, q)
  BY ReducingIs
<1>1. TopOp(p) \notin Unary /\ Len(p.ators) \in Nat \ {0}
  BY <1>0 DEF Unary
<1>2. PICK h, V, at, kind : Ready(p, nd, ts, t, k, pri, h, V, at, kind)
  BY <1>1, HaveReady
<1> DEFINE R == V[nd[L]]
           S == V[Len(p.ands)]
<1>3. Spells(ts, t, "branch", at[L], k, S)
  <2>1. TopOp(p) \notin Opens
    BY DEF Opens
  <2> QED BY <1>2, <2>1, ItIsATree DEF Ready
<1>4. L \in 2 .. L /\ L - 1 = L2 /\ L2 \in 1 .. Len(q.ators)
  BY <1>0
<1>5. Standing(p.ators, nd, V, ts, t, at, L)
  BY <1>2, <1>4 DEF Ready, Structured
<1>6. p.ators[L2].op \in Opens /\ ts[at[L]].kind = "|"
  BY <1>4, <1>5 DEF Standing, TopOp
<1>12. PICK b : at[L] = b + 1 /\ Spells(ts, t, "tree", at[L2], b, R)
  BY <1>4, <1>5 DEF Standing, TopOp
<1>7. CutTo(p, q, nd, t, V, Result("|", R, S, t))
  BY <1>2, ReducingCuts DEF Ready
<1>8. Result("|", R, S, t) = R \cup S
  BY DEF Result, Unary
<1>9. Spells(ts, t, "tree", at[L2], k, R \cup S)
  <2>1. Means(ts, t, "tree", at[L2] + 1, b, R) /\ Means(ts, t, "branch", at[L] + 1, k, S)
    BY <1>3, <1>12 DEF Spells
  <2> HIDE DEF R, S
  <2>2. Means(ts, t, "tree", at[L2] + 1, k, R \cup S)
    BY <2>1, <1>6, <1>12, ChoiceMeans
  <2> QED BY <2>2 DEF Spells
<1>10. q.ators[L2] = p.ators[L2]
  BY <1>0, <1>4 DEF Reduced
<1>11. Fits("tree", q.ators[L2].op, pri)
  BY <1>6, <1>10 DEF Fits
<1> QED BY <1>1, <1>2, <1>7, <1>8, <1>9, <1>11, OthersAreApplied DEF Ready

(* A tree between brackets is a piece.                                      *)
LEMMA GroupIsApplied ==
  ASSUME NEW p, NEW q, NEW nd, NEW nb, Reducing(p, q, nd, nb), TopOp(p) = "(",
         NEW ts \in Seq(Lexemes), NEW t \in Seq(Nat), NEW k, NEW pri,
         Have(p, nd, ts, t, k, pri), NEW l, l = k + 1, l <= Len(ts), ts[l].kind = ")", NEW pri2
  PROVE  Have(q, nd, ts, t, l, pri2)
<1> DEFINE L == Len(p.ators)
           L2 == Len(q.ators)
<1>0. L \in Nat /\ L2 \in Nat /\ L >= 2 /\ L2 = L - 1 /\ L2 >= 1 /\ Reduced(p, q)
  BY ReducingIs
<1>1. TopOp(p) \notin Unary /\ Len(p.ators) \in Nat \ {0}
  BY <1>0 DEF Unary
<1>2. PICK h, V, at, kind : Ready(p, nd, ts, t, k, pri, h, V, at, kind)
  BY <1>1, HaveReady
<1> DEFINE R == V[nd[L]]
           S == V[Len(p.ands)]
<1>3. Spells(ts, t, "tree", at[L], k, S)
  BY <1>2, ItIsATree DEF Ready
<1>4. L \in 2 .. L /\ L - 1 = L2 /\ L2 \in 1 .. Len(q.ators) /\ L2 \in Nat
  BY <1>0
<1>5. Standing(p.ators, nd, V, ts, t, at, L) /\ at \in [Nat -> Nat]
  BY <1>2, <1>4 DEF Ready, Structured
<1>6. at[L] = at[L2] + 1 /\ ts[at[L]].kind = "("
  BY <1>4, <1>5 DEF Standing, TopOp
<1>7. CutTo(p, q, nd, t, V, Result("(", R, S, t))
  BY <1>2, ReducingCuts DEF Ready
<1>8. Result("(", R, S, t) = S
  BY DEF Result, Unary
<1>9. Spells(ts, t, "piece", at[L2], l, S)
  <2> DEFINE a == at[L] + 1
             c == at[L]
  <2>1. Means(ts, t, "tree", a, k, S)
    BY <1>3 DEF Spells
  <2>2. c = a - 1 /\ 1 <= c /\ ts[c].kind = "("
    <3>1. at[L2] \in Nat
      BY <1>4, <1>5
    <3> QED BY <3>1, <1>6
  <2>4. c = at[L2] + 1
    BY <1>6
  <2> HIDE DEF a, c, S
  <2>3. Means(ts, t, "piece", c, l, S)
    BY <2>1, <2>2, GroupMeans
  <2> QED BY <2>3, <2>4 DEF Spells
<1>10. Fits("piece", q.ators[L2].op, pri2)
  BY DEF Fits
<1>12. Structured(p.ators, nd, V, ts, t, at, Len(p.ators))
  BY <1>2 DEF Ready
<1> QED BY <1>1, <1>12, <1>7, <1>8, <1>9, <1>10, OthersAreApplied

(* What the reductions keep.                                                *)
After(p, q, nd, nb) ==
    /\ Stacked(q, nd, nb) /\ Else(p, q) /\ q.err = "none"
    /\ nd[Len(q.ators)] - Len(q.ands) = nd[Len(p.ators)] - Len(p.ands)
    /\ q = p \/ Len(q.ands) >= 1

(* Brackets that close are read when they are reduced.                      *)
Closing(ts, k, pri) == pri = ")" => k + 1 <= Len(ts) /\ ts[k + 1].kind = ")"

LEMMA OpsAre ==
  ASSUME NEW p, NEW nd, NEW nb, Stacked(p, nd, nb)
  PROVE  /\ p \in Parsers /\ Len(p.ators) \in Nat \ {0} /\ Len(p.ands) \in Nat
         /\ p.ators \in Seq(Ators) /\ p.ands \in Seq(Parts) /\ p.prog \in Seq(Good)
         /\ TopOp(p) \in {"sentinel", "("} \cup Binary \cup Unary
         /\ nd \in [Nat -> Nat] /\ nb \in [Nat -> Nat]
<1>1. /\ p \in Parsers /\ p.ators \in Seq(Ators) /\ p.ands \in Seq(Parts) /\ p.prog \in Seq(Good)
      /\ Len(p.ators) >= 1 /\ nd \in [Nat -> Nat] /\ nb \in [Nat -> Nat]
  BY DEF Stacked, Parsers, Counts
<1>2. Len(p.ators) \in Nat /\ Len(p.ands) \in Nat
  BY <1>1, LenProperties
<1>3. Len(p.ators) \in Nat \ {0} /\ Len(p.ators) \in 1 .. Len(p.ators)
  <2> DEFINE n == Len(p.ators)
  <2>1. n >= 1 /\ n \in Nat
    BY <1>1, <1>2
  <2> HIDE DEF n
  <2>2. n \in Nat \ {0} /\ n \in 1 .. n
    BY <2>1
  <2> QED BY <2>2 DEF n
<1>4. p.ators[Len(p.ators)] \in Ators
  BY <1>1, <1>3, ElementOfSeq
<1>5. TopOp(p) \in {"sentinel", "("} \cup Binary \cup Unary
  BY <1>4 DEF TopOp, Ators
<1> QED BY <1>1, <1>2, <1>3, <1>5

LEMMA ReductionKeepsHave ==
  ASSUME NEW p, NEW q, NEW nd, NEW nb, Reducing(p, q, nd, nb),
         NEW ts \in Seq(Lexemes), NEW t \in Seq(Nat), NEW k \in Nat, NEW pri \in Priorities,
         Tight(p, pri), Closing(ts, k, pri), Have(p, nd, ts, t, k, pri)
  PROVE  IF TopOp(p) = "(" THEN pri = ")" => Have(q, nd, ts, t, k + 1, "*")
         ELSE Have(q, nd, ts, t, k, pri)
<1>1. TopOp(p) \in {"(", "|", "cat"} \cup Unary
  BY OpsAre DEF Reducing, Binary
<1>2. TopOp(p) = "cat" => pri \notin Unary
  BY Precedences DEF Tight, Unary
<1>3. TopOp(p) = "|" => pri \notin Unary \cup {"cat"}
  BY Precedences DEF Tight, Unary
<1>4. CASE TopOp(p) \in Unary
  BY <1>4, UnaryIsApplied DEF Unary
<1>5. CASE TopOp(p) = "cat"
  BY <1>5, <1>2, CatIsApplied
<1>6. CASE TopOp(p) = "|"
  BY <1>6, <1>3, BarIsApplied
<1>7. CASE TopOp(p) = "("
  <2>1. ASSUME pri = ")"
        PROVE  Have(q, nd, ts, t, k + 1, "*")
    <3> DEFINE l == k + 1
    <3>1. l <= Len(ts) /\ ts[l].kind = ")" /\ l = k + 1
      BY <2>1 DEF Closing
    <3> HIDE DEF l
    <3>2. Have(q, nd, ts, t, l, "*")
      BY <1>7, <3>1, GroupIsApplied
    <3> QED BY <3>1, <3>2
  <2> QED BY <1>7, <2>1
<1> QED BY <1>1, <1>4, <1>5, <1>6, <1>7

LEMMA EvaluationKeeps ==
  ASSUME NEW p, NEW nd, NEW nb, Stacked(p, nd, nb), p.err = "none",
         NEW pri \in Priorities, Matched(p, nb, pri), NEW q, q = evaluntil(p, pri), q.err = "none",
         NEW ts \in Seq(Lexemes), NEW t \in Seq(Nat), NEW k \in Nat, Closing(ts, k, pri)
  PROVE  /\ After(p, q, nd, nb)
         /\ IF pri = ")"
            THEN /\ nb[Len(q.ators)] = nb[Len(p.ators)] - 1
                 /\ Have(p, nd, ts, t, k, pri) => Have(q, nd, ts, t, k + 1, "*")
            ELSE /\ nb[Len(q.ators)] = nb[Len(p.ators)] /\ ~ Tight(q, pri)
                 /\ Have(p, nd, ts, t, k, pri) => Have(q, nd, ts, t, k, pri)
<1> DEFINE W == {r \in Parsers : Have(p, nd, ts, t, k, pri) => Have(r, nd, ts, t, k, pri)}
           C == {r \in Parsers : Have(p, nd, ts, t, k, pri) => Have(r, nd, ts, t, k + 1, "*")}
<1>1. p \in W
  BY OpsAre
<1>2. Keeps(nd, nb, pri, W, C)
  <2>1. SUFFICES ASSUME NEW r \in W, r.err = "none", Stacked(r, nd, nb), TopOp(r) # "sentinel",
                        Tight(r, pri), NEW s, s = Reduce(r), s.err = "none"
                 PROVE  IF TopOp(r) = "(" THEN pri = ")" => s \in C ELSE s \in W
    BY DEF Keeps
  <2>2. Reducing(r, s, nd, nb)
    BY <2>1 DEF Reducing
  <2>3. s \in Parsers
    BY <2>2, ReducingIs
  <2>4. ASSUME Have(r, nd, ts, t, k, pri)
        PROVE  IF TopOp(r) = "(" THEN pri = ")" => Have(s, nd, ts, t, k + 1, "*")
               ELSE Have(s, nd, ts, t, k, pri)
    BY <2>1, <2>2, <2>4, ReductionKeepsHave
  <2> QED BY <2>1, <2>3, <2>4
<1> HIDE DEF W, C
<1>3. PICK s : s.parser = q /\ s.over = TRUE /\ Evaluating(s, p, nd, nb, pri, W, C)
  BY <1>1, <1>2, Evaluation
<1>4. /\ Else(p, q) /\ Stacked(q, nd, nb)
      /\ nd[Len(q.ators)] - Len(q.ands) = nd[Len(p.ators)] - Len(p.ands)
      /\ q = p \/ Len(q.ands) >= 1
      /\ pri = ")" => q \in C /\ nb[Len(q.ators)] = nb[Len(p.ators)] - 1
      /\ pri # ")" => q \in W /\ nb[Len(q.ators)] = nb[Len(p.ators)] /\ ~ Tight(q, pri)
  BY <1>3 DEF Evaluating
<1> QED BY <1>4 DEF After, W, C

-----------------------------------------------------------------------------
(* Operators that are pushed                                               *)

Pushing(p, q, op) ==
    /\ q \in Parsers /\ q.err = "none" /\ q.lastwasand = (op \in Unary)
    /\ q.prog = p.prog /\ q.ands = p.ands
    /\ q.nbra = p.nbra /\ q.cursubid = p.cursubid /\ q.nclass = p.nclass /\ q.start = p.start
    /\ Len(q.ators) = Len(p.ators) + 1 /\ q.ators[Len(q.ators)].op = op
    /\ \A i \in 1 .. Len(p.ators) : q.ators[i] = p.ators[i]

LEMMA PushedIs ==
  ASSUME NEW p \in Parsers, NEW op \in {"("} \cup Binary \cup Unary, op = "(" => p.cursubid # 0,
         p.err = "none", NEW q, q = Pushed(p, op), RegexpAssumption
  PROVE  /\ q.err \in {"none", "operator stack overflow"}
         /\ q.err = "none" => Pushing(p, q, op)
<1> DEFINE a == [op |-> op, subid |-> p.cursubid]
           r == pushator(p, op)
<1>2. p.cursubid \in 0 .. NSubexp - 1 /\ p.ators \in Seq(Ators)
  BY DEF Parsers
<1>3. a \in Ators /\ a.op = op
  <2>1. p.cursubid \in Nat /\ (op = "(" => p.cursubid \in 1 .. NSubexp - 1)
    BY <1>2 DEF RegexpAssumption
  <2>2. op \in {"sentinel", "("} \cup Binary \cup Unary
    OBVIOUS
  <2> QED BY <2>1, <2>2 DEF Ators
<1> HIDE DEF a
<1>4. q = [r EXCEPT !.lastwasand = op \in {"*", "?", "+"}]
  BY DEF Pushed
<1>5. /\ r \in Parsers /\ (r.err = "none" => r = [p EXCEPT !.ators = Append(@, a)])
      /\ r.err \in {"none", "operator stack overflow"}
  <2>1. CASE Len(p.ators) >= NStack
    <3>1. r = rcerror(p, "operator stack overflow")
      BY <2>1 DEF pushator
    <3>2. "operator stack overflow" \in Errors /\ "operator stack overflow" # "none"
      BY DEF Errors
    <3> QED BY <3>1, <3>2, ErrorTyped
  <2>2. CASE ~ (Len(p.ators) >= NStack)
    <3>1. r = [p EXCEPT !.ators = Append(@, a)]
      BY <2>2 DEF pushator, a
    <3>2. Append(p.ators, a) \in Seq(Ators)
      BY <1>2, <1>3, AppendProperties
    <3>3. r.err = "none"
      BY <3>1 DEF Parsers
    <3> QED BY <3>1, <3>2, <3>3, ParserChanged
  <2> QED BY <2>1, <2>2
<1> HIDE DEF r
<1>6. q.err = r.err
  BY <1>4, <1>5 DEF Parsers
<1> SUFFICES ASSUME q.err = "none" PROVE Pushing(p, q, op)
  BY <1>5, <1>6
<1>7. r = [p EXCEPT !.ators = Append(@, a)]
  BY <1>5, <1>6
<1>8. /\ q \in Parsers /\ q.lastwasand = (op \in Unary)
  <2>1. (op \in {"*", "?", "+"}) \in BOOLEAN /\ (op \in {"*", "?", "+"}) = (op \in Unary)
    BY DEF Unary
  <2>2. q \in Parsers
    <3> DEFINE v == op \in {"*", "?", "+"}
    <3>1. v \in BOOLEAN /\ q = [r EXCEPT !.lastwasand = v]
      BY <1>4, <2>1
    <3> HIDE DEF v
    <3>2. r \in Parsers
      BY <1>5
    <3>3. [r EXCEPT !.lastwasand = v] \in Parsers
      BY ONLY <3>1, <3>2, ParserChanged
    <3> QED BY ONLY <3>1, <3>3
  <2>3. q.lastwasand = (op \in {"*", "?", "+"})
    BY <1>4, <1>5 DEF Parsers
  <2> QED BY <2>1, <2>2, <2>3
<1>9. /\ q.prog = p.prog /\ q.ands = p.ands /\ q.nbra = p.nbra /\ q.cursubid = p.cursubid
      /\ q.nclass = p.nclass /\ q.start = p.start /\ q.ators = Append(p.ators, a)
  BY <1>4, <1>5, <1>7 DEF Parsers
<1>10. /\ Len(q.ators) = Len(p.ators) + 1 /\ q.ators[Len(q.ators)].op = op
       /\ \A i \in 1 .. Len(p.ators) : q.ators[i] = p.ators[i]
  BY <1>2, <1>3, <1>9, AppendProperties
<1> QED BY <1>8, <1>9, <1>10 DEF Pushing

(* The counts go on.                                                        *)
Counting(p, q, f, g, ops) ==
    /\ \A i \in 1 .. Len(p.ators) : g[i] = f[i]
    /\ g[Len(q.ators)] = f[Len(p.ators)] + (IF TopOp(q) \in ops THEN 1 ELSE 0)

LEMMA PushCounted ==
  ASSUME NEW p, Len(p.ators) \in Nat \ {0}, NEW q, NEW op, Pushing(p, q, op),
         NEW f, NEW ops, Counts(p.ators, f, ops)
  PROVE  \E g : Counts(q.ators, g, ops) /\ Counting(p, q, f, g, ops)
<1> DEFINE L == Len(p.ators)
           L2 == Len(q.ators)
           c == f[L] + (IF TopOp(q) \in ops THEN 1 ELSE 0)
           g == [f EXCEPT ![L2] = c]
<1>1. L \in Nat \ {0} /\ L2 = L + 1 /\ L2 \in Nat /\ L \in Nat
  BY DEF Pushing
<1>2. f \in [Nat -> Nat] /\ f[1] = 0
  BY DEF Counts
<1>3. c \in Nat
  <2>1. f[L] \in Nat
    BY <1>1, <1>2
  <2> QED BY <2>1
<1>4. g \in [Nat -> Nat] /\ g[L2] = c /\ \A i \in Nat : i # L2 => g[i] = f[i]
  BY <1>1, <1>2, <1>3
<1> HIDE DEF g
<1>5. \A i \in 1 .. L : i \in Nat /\ i # L2
  BY <1>1
<1>6. g[1] = 0 /\ \A i \in 1 .. L : g[i] = f[i]
  <2>1. 1 \in 1 .. L
    BY <1>1
  <2> QED BY <2>1, <1>2, <1>4, <1>5
<1>7. ASSUME NEW i \in 2 .. L2
      PROVE  g[i] = g[i - 1] + (IF q.ators[i].op \in ops THEN 1 ELSE 0)
  <2>1. CASE i = L2
    <3>1. i - 1 = L /\ L \in 1 .. L
      BY <2>1, <1>1
    <3> QED BY <2>1, <3>1, <1>4, <1>6 DEF TopOp
  <2>2. CASE i # L2
    <3>1. i \in 2 .. L /\ i \in 1 .. L /\ i - 1 \in 1 .. L
      BY <2>2, <1>1
    <3>2. q.ators[i] = p.ators[i]
      BY <3>1 DEF Pushing
    <3>3. f[i] = f[i - 1] + (IF p.ators[i].op \in ops THEN 1 ELSE 0)
      BY <3>1 DEF Counts
    <3> QED BY <3>1, <3>2, <3>3, <1>6
  <2> QED BY <2>1, <2>2
<1>8. Counts(q.ators, g, ops)
  BY <1>4, <1>6, <1>7 DEF Counts
<1>9. Counting(p, q, f, g, ops)
  BY <1>4, <1>6 DEF Counting
<1> QED BY <1>8, <1>9

Pushes(p, q, op, nd, nb, nd2, nb2) ==
    /\ Pushing(p, q, op) /\ Stacked(q, nd2, nb2)
    /\ Counting(p, q, nd, nd2, Binary) /\ Counting(p, q, nb, nb2, {"("})

LEMMA PushStacked ==
  ASSUME NEW p, NEW nd, NEW nb, Stacked(p, nd, nb),
         NEW op \in {"("} \cup Binary \cup Unary, op = "(" => p.cursubid # 0,
         NEW q, q = Pushed(p, op), q.err = "none", RegexpAssumption
  PROVE  p.err = "none" /\ \E nd2, nb2 : Pushes(p, q, op, nd, nb, nd2, nb2)
<1>1. p \in Parsers /\ Len(p.ators) \in Nat \ {0}
  BY OpsAre
<1>2. p.err = "none" /\ Pushing(p, q, op)
  <2>1. p.err = "none"
    BY DEF Pushed
  <2> QED BY <1>1, <2>1, PushedIs
<1>3. Counts(p.ators, nd, Binary) /\ Counts(p.ators, nb, {"("})
  BY DEF Stacked
<1>4. PICK nd2 : Counts(q.ators, nd2, Binary) /\ Counting(p, q, nd, nd2, Binary)
  BY <1>1, <1>2, <1>3, PushCounted
<1>5. PICK nb2 : Counts(q.ators, nb2, {"("}) /\ Counting(p, q, nb, nb2, {"("})
  BY <1>1, <1>2, <1>3, PushCounted
<1>6. q \in Parsers /\ Len(q.ators) >= 1 /\ Len(q.ators) = Len(p.ators) + 1 /\ q.ators[1] = p.ators[1]
  <2>1. 1 \in 1 .. Len(p.ators)
    BY <1>1
  <2>2. Len(q.ators) = Len(p.ators) + 1
    BY <1>2 DEF Pushing
  <2>3. Len(q.ators) >= 1
    BY <1>1, <2>2
  <2> QED BY <1>2, <2>1, <2>2, <2>3 DEF Pushing
<1>7. ASSUME NEW i \in 2 .. Len(q.ators)
      PROVE  q.ators[i].op # "sentinel"
  <2>1. CASE i = Len(q.ators)
    <3>1. q.ators[i].op = op
      BY <2>1, <1>2 DEF Pushing
    <3> QED BY <3>1 DEF Binary, Unary
  <2>2. CASE i # Len(q.ators)
    <3>1. i \in 2 .. Len(p.ators) /\ i \in 1 .. Len(p.ators)
      BY <2>2, <1>1, <1>6
    <3>2. q.ators[i] = p.ators[i]
      BY <3>1, <1>2 DEF Pushing
    <3> QED BY <3>1, <3>2 DEF Stacked
  <2> QED BY <2>1, <2>2
<1>8. Stacked(q, nd2, nb2)
  BY <1>4, <1>5, <1>6, <1>7 DEF Stacked
<1> QED BY <1>2, <1>4, <1>5, <1>8 DEF Pushes

(* What stands before an operator that is pushed.                           *)
Before(p, q, nd, nd2, V, ts, t, at, at2, k) ==
    /\ Structured(p.ators, nd, V, ts, t, at, Len(p.ators))
    /\ k \in Nat /\ at2 = [at EXCEPT ![Len(q.ators)] = k]
    /\ Standing(q.ators, nd2, V, ts, t, at2, Len(q.ators))

LEMMA StructureGrown ==
  ASSUME NEW p, NEW q, NEW op, NEW nd, NEW nb, NEW nd2, NEW nb2, Pushes(p, q, op, nd, nb, nd2, nb2),
         Len(p.ators) \in Nat \ {0}, op \notin Unary,
         NEW V, NEW ts, NEW t, NEW at, NEW at2, NEW k, Before(p, q, nd, nd2, V, ts, t, at, at2, k)
  PROVE  Structured(q.ators, nd2, V, ts, t, at2, Len(q.ators)) /\ at2[Len(q.ators)] = k
<1> DEFINE L == Len(p.ators)
           L2 == Len(q.ators)
<1>1. L \in Nat \ {0} /\ L2 = L + 1 /\ L2 \in Nat /\ L \in Nat
  BY DEF Pushes, Pushing
<1> USE DEF Before
<1>2. at \in [Nat -> Nat] /\ at[1] = 0
  BY DEF Structured
<1>3. at2 \in [Nat -> Nat] /\ at2[L2] = k /\ \A i \in Nat : i # L2 => at2[i] = at[i]
  BY <1>1, <1>2
<1>4. \A i \in 1 .. L : i \in Nat /\ i # L2 /\ at2[i] = at[i] /\ q.ators[i] = p.ators[i] /\ nd2[i] = nd[i]
  BY <1>1, <1>3 DEF Pushes, Pushing, Counting
<1>5. at2[1] = 0 /\ L2 \in 1 .. L2
  <2>1. 1 \in 1 .. L
    BY <1>1
  <2> QED BY <2>1, <1>1, <1>2, <1>4
<1>6. ASSUME NEW i \in 1 .. L2
      PROVE  q.ators[i].op \in Unary <=> i > L2
  <2>1. ~ (i > L2)
    BY <1>1
  <2>2. CASE i = L2
    BY <2>1, <2>2 DEF Pushes, Pushing
  <2>3. CASE i # L2
    <3>1. i \in 1 .. L /\ ~ (i > L)
      BY <2>3, <1>1
    <3>2. p.ators[i].op \notin Unary
      BY <3>1 DEF Structured
    <3> QED BY <3>1, <3>2, <1>4, <2>1
  <2> QED BY <2>2, <2>3
<1>7. ASSUME NEW i \in 2 .. L2
      PROVE  Standing(q.ators, nd2, V, ts, t, at2, i)
  <2>1. CASE i = L2
    BY <2>1
  <2>2. CASE i # L2
    <3>1. i \in 2 .. L /\ i \in 1 .. L /\ i - 1 \in 1 .. L
      BY <2>2, <1>1
    <3>2. Standing(p.ators, nd, V, ts, t, at, i)
      BY <3>1 DEF Structured
    <3> QED BY <3>1, <3>2, <1>4 DEF Standing
  <2> QED BY <2>1, <2>2
<1> QED BY <1>3, <1>5, <1>6, <1>7 DEF Structured

(* An operand is wanted after an operator of two.                           *)
LEMMA PushWants ==
  ASSUME NEW p, NEW q, NEW op, NEW nd, NEW nb, NEW nd2, NEW nb2, Pushes(p, q, op, nd, nb, nd2, nb2),
         Len(p.ators) \in Nat \ {0}, op \notin Unary,
         NEW h, NEW V, NEW ts, NEW t, LaidOut(p.prog, p.ands, t, h, V),
         Len(p.ands) = nd2[Len(q.ators)],
         NEW at, NEW at2, NEW k, Before(p, q, nd, nd2, V, ts, t, at, at2, k)
  PROVE  Want(q, nd2, ts, t, k)
<1>1. Structured(q.ators, nd2, V, ts, t, at2, Len(q.ators)) /\ at2[Len(q.ators)] = k
  BY StructureGrown
<1>2. q.prog = p.prog /\ q.ands = p.ands
  BY DEF Pushes, Pushing
<1> QED BY <1>1, <1>2 DEF Want

(* The tops of the stacks after a push.                                     *)
Topped(p, q, op, nd, nd2, at, at2, k) ==
    /\ Len(q.ators) - 1 = Len(p.ators) /\ TopOp(q) = op
    /\ q.ators[Len(p.ators)].op = TopOp(p)
    /\ op \in Binary => nd2[Len(q.ators)] = nd[Len(p.ators)] + 1
    /\ op \notin Binary => nd2[Len(q.ators)] = nd[Len(p.ators)]
    /\ at2[Len(q.ators)] = k /\ at2[Len(p.ators)] = at[Len(p.ators)]

LEMMA PushTops ==
  ASSUME NEW p, NEW q, NEW op, NEW nd, NEW nb, NEW nd2, NEW nb2, Pushes(p, q, op, nd, nb, nd2, nb2),
         Stacked(p, nd, nb), NEW at \in [Nat -> Nat], NEW k \in Nat,
         NEW at2, at2 = [at EXCEPT ![Len(q.ators)] = k]
  PROVE  Topped(p, q, op, nd, nd2, at, at2, k)
<1> DEFINE L == Len(p.ators)
           L2 == Len(q.ators)
<1>1. L \in Nat \ {0} /\ L2 = L + 1 /\ L2 \in Nat /\ L \in Nat
  BY OpsAre DEF Pushes, Pushing
<1>2. L2 - 1 = L /\ L # L2 /\ L \in 1 .. L
  <2> HIDE DEF L, L2
  <2> QED BY <1>1
<1>3. TopOp(q) = op /\ q.ators[L] = p.ators[L]
  BY <1>2 DEF Pushes, Pushing, TopOp
<1>4. nd2[L2] = nd[L] + (IF op \in Binary THEN 1 ELSE 0) /\ nd[L] \in Nat
  BY <1>1, <1>3, OpsAre DEF Pushes, Counting
<1>6. (op \in Binary => nd2[L2] = nd[L] + 1) /\ (op \notin Binary => nd2[L2] = nd[L])
  <2> DEFINE a == nd[L]
             b == nd2[L2]
  <2>1. a \in Nat /\ b = a + (IF op \in Binary THEN 1 ELSE 0)
    BY <1>4
  <2> HIDE DEF a, b
  <2>2. CASE op \in Binary
    BY <2>1, <2>2 DEF a, b
  <2>3. CASE op \notin Binary
    BY <2>1, <2>3 DEF a, b
  <2> QED BY <2>2, <2>3
<1>5. at2[L2] = k /\ at2[L] = at[L]
  BY <1>1, <1>2
<1> QED BY <1>2, <1>3, <1>6, <1>5 DEF TopOp, Topped

LEMMA CatIsPushed ==
  ASSUME NEW p, NEW q, NEW nd, NEW nb, NEW nd2, NEW nb2, Pushes(p, q, "cat", nd, nb, nd2, nb2),
         Stacked(p, nd, nb), ~ Tight(p, "cat"),
         NEW ts \in Seq(Lexemes), NEW t \in Seq(Nat), NEW k \in Nat, Have(p, nd, ts, t, k, "cat")
  PROVE  Want(q, nd2, ts, t, k)
<1>1. TopOp(p) \in Opens \cup {"|"}
  <2>1. TopOp(p) \in {"sentinel", "("} \cup Binary \cup Unary
    BY OpsAre
  <2> QED BY <2>1, Precedences DEF Tight, Opens, Binary, Unary
<1>2. TopOp(p) \notin Unary /\ Len(p.ators) \in Nat \ {0}
  BY <1>1, OpsAre DEF Opens, Unary
<1>3. PICK h, V, at, kind : Ready(p, nd, ts, t, k, "cat", h, V, at, kind)
  BY <1>2, HaveReady
<1>4. /\ LaidOut(p.prog, p.ands, t, h, V) /\ Len(p.ands) = nd[Len(p.ators)] + 1
      /\ Structured(p.ators, nd, V, ts, t, at, Len(p.ators))
      /\ Fits(kind, TopOp(p), "cat")
      /\ Spells(ts, t, kind, at[Len(p.ators)], k, V[Len(p.ands)])
  BY <1>3 DEF Ready
<1>5. Spells(ts, t, "branch", at[Len(p.ators)], k, V[Len(p.ands)])
  <2>1. kind # "tree"
    BY <1>4 DEF Fits
  <2> QED BY <2>1, <1>4, ItIsATree
<1> DEFINE at2 == [at EXCEPT ![Len(q.ators)] = k]
<1>20. at2 = [at EXCEPT ![Len(q.ators)] = k]
  OBVIOUS
<1> HIDE DEF at2
<1>6. at \in [Nat -> Nat]
  BY <1>4 DEF Structured
<1>7. /\ Len(q.ators) - 1 = Len(p.ators) /\ TopOp(q) = "cat"
      /\ q.ators[Len(p.ators)].op = TopOp(p)
      /\ nd2[Len(q.ators)] = nd[Len(p.ators)] + 1
      /\ at2[Len(q.ators)] = k /\ at2[Len(p.ators)] = at[Len(p.ators)]
  <2>1. Topped(p, q, "cat", nd, nd2, at, at2, k)
    BY <1>6, <1>20, PushTops
  <2>2. "cat" \in Binary
    BY DEF Binary
  <2> QED BY <2>1, <2>2 DEF Topped
<1>8. Len(p.ands) = nd2[Len(q.ators)]
  BY <1>4, <1>7 DEF Binary
<1>9. Standing(q.ators, nd2, V, ts, t, at2, Len(q.ators))
  BY <1>1, <1>5, <1>7, <1>8 DEF Standing, TopOp
<1>10. Before(p, q, nd, nd2, V, ts, t, at, at2, k)
  BY <1>4, <1>9, <1>20 DEF Before
<1>11. "cat" \notin Unary
  BY DEF Unary
<1> QED BY <1>2, <1>4, <1>8, <1>10, <1>11, PushWants

LEMMA BarIsPushed ==
  ASSUME NEW p, NEW q, NEW nd, NEW nb, NEW nd2, NEW nb2, Pushes(p, q, "|", nd, nb, nd2, nb2),
         Stacked(p, nd, nb), ~ Tight(p, "|"),
         NEW ts \in Seq(Lexemes), NEW t \in Seq(Nat), NEW k \in Nat, Have(p, nd, ts, t, k, "|"),
         NEW l, l = k + 1, ts[l].kind = "|"
  PROVE  Want(q, nd2, ts, t, l)
<1>1. TopOp(p) \in Opens
  <2>1. TopOp(p) \in {"sentinel", "("} \cup Binary \cup Unary
    BY OpsAre
  <2> QED BY <2>1, Precedences DEF Tight, Opens, Binary, Unary
<1>2. TopOp(p) \notin Unary /\ Len(p.ators) \in Nat \ {0}
  BY <1>1, OpsAre DEF Opens, Unary
<1>3. PICK h, V, at, kind : Ready(p, nd, ts, t, k, "|", h, V, at, kind)
  BY <1>2, HaveReady
<1>4. /\ LaidOut(p.prog, p.ands, t, h, V) /\ Len(p.ands) = nd[Len(p.ators)] + 1
      /\ Structured(p.ators, nd, V, ts, t, at, Len(p.ators))
      /\ Fits(kind, TopOp(p), "|")
      /\ Spells(ts, t, kind, at[Len(p.ators)], k, V[Len(p.ands)])
  BY <1>3 DEF Ready
<1>5. Spells(ts, t, "tree", at[Len(p.ators)], k, V[Len(p.ands)])
  BY <1>4, ItIsATree
<1> DEFINE at2 == [at EXCEPT ![Len(q.ators)] = l]
<1>20. at2 = [at EXCEPT ![Len(q.ators)] = l]
  OBVIOUS
<1> HIDE DEF at2
<1>6. at \in [Nat -> Nat] /\ l \in Nat
  <2>1. l \in Nat
    OBVIOUS
  <2> QED BY <2>1, <1>4 DEF Structured
<1>7. /\ Len(q.ators) - 1 = Len(p.ators) /\ TopOp(q) = "|"
      /\ q.ators[Len(p.ators)].op = TopOp(p)
      /\ nd2[Len(q.ators)] = nd[Len(p.ators)] + 1
      /\ at2[Len(q.ators)] = l /\ at2[Len(p.ators)] = at[Len(p.ators)]
  <2>1. Topped(p, q, "|", nd, nd2, at, at2, l)
    BY <1>6, <1>20, PushTops
  <2>2. "|" \in Binary
    BY DEF Binary
  <2> QED BY <2>1, <2>2 DEF Topped
<1>8. Len(p.ands) = nd2[Len(q.ators)]
  BY <1>4, <1>7 DEF Binary
<1>9. Standing(q.ators, nd2, V, ts, t, at2, Len(q.ators))
  BY <1>1, <1>5, <1>7, <1>8 DEF Standing, TopOp
<1>10. Before(p, q, nd, nd2, V, ts, t, at, at2, l)
  BY <1>4, <1>6, <1>9, <1>20 DEF Before
<1>11. "|" \notin Unary
  BY DEF Unary
<1> QED BY <1>2, <1>4, <1>8, <1>10, <1>11, PushWants

LEMMA BracketIsPushed ==
  ASSUME NEW p, NEW q, NEW nd, NEW nb, NEW nd2, NEW nb2, Pushes(p, q, "(", nd, nb, nd2, nb2),
         Stacked(p, nd, nb),
         NEW ts \in Seq(Lexemes), NEW t \in Seq(Nat), NEW k \in Nat, Want(p, nd, ts, t, k),
         NEW l, l = k + 1, ts[l].kind = "("
  PROVE  Want(q, nd2, ts, t, l)
<1>4. PICK h, V, at :
        /\ LaidOut(p.prog, p.ands, t, h, V) /\ Len(p.ands) = nd[Len(p.ators)]
        /\ Structured(p.ators, nd, V, ts, t, at, Len(p.ators)) /\ at[Len(p.ators)] = k
  BY DEF Want
<1> DEFINE at2 == [at EXCEPT ![Len(q.ators)] = l]
<1>20. at2 = [at EXCEPT ![Len(q.ators)] = l]
  OBVIOUS
<1> HIDE DEF at2
<1>6. at \in [Nat -> Nat] /\ l \in Nat /\ Len(p.ators) \in Nat \ {0}
  <2>1. l \in Nat
    OBVIOUS
  <2>2. at \in [Nat -> Nat]
    BY <1>4 DEF Structured
  <2> QED BY <2>1, <2>2, OpsAre
<1>7. /\ Len(q.ators) - 1 = Len(p.ators) /\ TopOp(q) = "("
      /\ q.ators[Len(p.ators)].op = TopOp(p)
      /\ nd2[Len(q.ators)] = nd[Len(p.ators)]
      /\ at2[Len(q.ators)] = l /\ at2[Len(p.ators)] = at[Len(p.ators)]
  <2>1. Topped(p, q, "(", nd, nd2, at, at2, l)
    BY <1>6, <1>20, PushTops
  <2>2. "(" \notin Binary
    BY DEF Binary
  <2> QED BY <2>1, <2>2 DEF Topped
<1>8. Len(p.ands) = nd2[Len(q.ators)]
  <2>1. nd[Len(p.ators)] \in Nat
    BY <1>6, OpsAre
  <2> QED BY <1>4, <1>7, <2>1 DEF Binary
<1>9. Standing(q.ators, nd2, V, ts, t, at2, Len(q.ators))
  BY <1>4, <1>7 DEF Standing, TopOp
<1>10. Before(p, q, nd, nd2, V, ts, t, at, at2, l)
  BY <1>4, <1>6, <1>9, <1>20 DEF Before
<1>11. "(" \notin Unary
  BY DEF Unary
<1> QED BY <1>4, <1>6, <1>8, <1>10, <1>11, PushWants

(* An operator of one operand goes on top of those that are yet to be        *)
(* applied, and may be applied before them as well.                        *)
LEMMA UnaryIsPushed ==
  ASSUME NEW p, NEW q, NEW op \in Unary, NEW nd, NEW nb, NEW nd2, NEW nb2,
         Pushes(p, q, op, nd, nb, nd2, nb2), Stacked(p, nd, nb),
         NEW ts \in Seq(Lexemes), NEW t \in Seq(Nat), NEW k \in Nat, Have(p, nd, ts, t, k, op),
         NEW l, l = k + 1, l <= Len(ts), ts[l].kind = op
  PROVE  Have(q, nd2, ts, t, l, "*")
<1> DEFINE L == Len(p.ators)
           L2 == Len(q.ators)
           m == Len(p.ands)
<1>1. PICK h, V, at, u, w :
          /\ LaidOut(p.prog, p.ands, t, h, V) /\ m = nd[L] + 1
          /\ Had(p.ators, nd, V, ts, t, k, at, u, w, m, op)
  BY DEF Have
<1>2. Structured(p.ators, nd, V, ts, t, at, u) /\ Applying(p.ators, u, w, t, V[m])
  BY <1>1 DEF Had
<1>3. Spells(ts, t, "piece", at[u], k, w[u])
  BY <1>1 DEF Had, Fits
<1>4. L \in Nat \ {0} /\ L \in Nat /\ L2 \in Nat /\ L2 = L + 1 /\ u \in 1 .. L /\ nd \in [Nat -> Nat]
  BY <1>2, OpsAre DEF Structured, Pushes, Pushing
<1>5. u \in Nat /\ u <= L /\ L # L2 /\ L2 > u /\ u \in 1 .. L2 /\ ~ (L2 <= L)
  <2> HIDE DEF L, L2
  <2> QED BY <1>4
<1>6. \A i \in 1 .. L : q.ators[i] = p.ators[i] /\ nd2[i] = nd[i]
  BY DEF Pushes, Pushing, Counting
<1>7. q.ators[L2].op = op /\ q.ands = p.ands /\ q.prog = p.prog
  BY DEF Pushes, Pushing
<1>8. m = nd2[L2] + 1
  <2>1. op \notin Binary
    BY DEF Unary, Binary
  <2>2. nd2[L2] = nd[L]
    <3>1. nd[L] \in Nat
      BY <1>4
    <3>2. nd2[L2] = nd[L] + (IF TopOp(q) \in Binary THEN 1 ELSE 0)
      BY DEF Pushes, Counting
    <3> QED BY <2>1, <3>1, <3>2, <1>7 DEF TopOp
  <2> QED BY <2>2, <1>1
<1> HIDE DEF L, L2, m
<1>9. Structured(q.ators, nd2, V, ts, t, at, u)
  <2>1. ASSUME NEW i \in 1 .. L2
        PROVE  q.ators[i].op \in Unary <=> i > u
    <3>1. CASE i = L2
      BY <3>1, <1>5, <1>7
    <3>2. CASE i # L2
      <4>1. i \in 1 .. L
        BY <3>2, <1>4
      <4> QED BY <4>1, <1>2, <1>6 DEF Structured, L
    <3> QED BY <3>1, <3>2
  <2>2. ASSUME NEW i \in 2 .. u
        PROVE  Standing(q.ators, nd2, V, ts, t, at, i)
    <3>1. i \in 1 .. L /\ i - 1 \in 1 .. L
      BY <1>4, <1>5
    <3>2. Standing(p.ators, nd, V, ts, t, at, i)
      BY <1>2 DEF Structured
    <3> QED BY <3>1, <3>2, <1>6 DEF Standing
  <2>3. u \in 1 .. Len(q.ators) /\ at \in [Nat -> Nat] /\ at[1] = 0
    BY <1>2, <1>5 DEF Structured, L2
  <2> QED BY <2>1, <2>2, <2>3 DEF Structured, L2
<1> DEFINE w2 == [i \in Nat |-> IF i <= L THEN Repeated(op, w[i], t) ELSE w[L]]
<1>10. w \in [Nat -> Spans(t)] /\ w[L] = V[m]
  BY <1>2 DEF Applying, L
<1>11. \A i \in Nat : Repeated(op, w[i], t) \in Spans(t)
  BY <1>10, RepeatedSpans DEF Spans
<1>12. /\ w2 \in [Nat -> Spans(t)] /\ w2[L2] = V[m] /\ w2[L2] = w[L]
       /\ \A i \in 1 .. L : w2[i] = Repeated(op, w[i], t)
  <2>1. w2 \in [Nat -> Spans(t)]
    BY <1>10, <1>11, <1>4
  <2>2. w2[L2] = w[L]
    BY <1>4, <1>5
  <2>3. \A i \in 1 .. L : i \in Nat /\ i <= L
    BY <1>4
  <2> QED BY <2>1, <2>2, <2>3, <1>10
<1> HIDE DEF w2
<1>13. ASSUME NEW i \in u + 1 .. L2
       PROVE  w2[i - 1] = Repeated(q.ators[i].op, w2[i], t)
  <2>1. CASE i = L2
    <3>1. i - 1 = L /\ L \in 1 .. L
      BY <2>1, <1>4
    <3> QED BY <2>1, <3>1, <1>7, <1>12
  <2>2. CASE i # L2
    <3>1. i \in u + 1 .. L /\ i \in 1 .. L /\ i - 1 \in 1 .. L /\ i \in Nat /\ i > u
      BY <2>2, <1>4, <1>5
    <3>2. w[i - 1] = Repeated(p.ators[i].op, w[i], t)
      BY <3>1, <1>2 DEF Applying, L
    <3>3. p.ators[i].op \in Unary
      BY <3>1, <1>2 DEF Structured, L
    <3>4. w[i] \in Spans(t)
      BY <3>1, <1>10
    <3>5. Repeated(op, Repeated(p.ators[i].op, w[i], t), t) = Repeated(p.ators[i].op, Repeated(op, w[i], t), t)
      BY <3>3, <3>4, RepeatedCommutes DEF Spans
    <3>6. w2[i - 1] = Repeated(op, w[i - 1], t) /\ w2[i] = Repeated(op, w[i], t)
      BY <3>1, <1>12
    <3> QED BY <3>1, <3>2, <3>5, <3>6, <1>6
  <2> QED BY <2>1, <2>2
<1>14. Applying(q.ators, u, w2, t, V[m])
  BY <1>12, <1>13 DEF Applying, L2
<1>15. Spells(ts, t, "piece", at[u], l, w2[u])
  <2>1. w2[u] = Repeated(ts[l].kind, w[u], t)
    BY <1>4, <1>12
  <2> QED BY <2>1, <1>3, RepeatedMeans DEF Spells
<1>16. Had(q.ators, nd2, V, ts, t, l, at, u, w2, m, "*")
  BY <1>9, <1>14, <1>15 DEF Had, Fits
<1> QED BY <1>1, <1>7, <1>8, <1>16 DEF Have, L2, m

-----------------------------------------------------------------------------
(* Letters                                                                 *)

(* The spans of a class have the runes that are in it.                      *)
Deciphered(x) ==
    /\ bldcclass(x) \in Seq(Int \X Int)
    /\ \A r \in Nat : Within(bldcclass(x), r) <=> InClass(x, r)
Readable(x) == x \in Lexemes /\ x.kind \in Letters /\ (x.kind \in Classes => Deciphered(x))

LEMMA LetterMoves ==
  ASSUME NEW x, Readable(x), NEW t \in Seq(Nat), NEW a \in Places(t), NEW b \in Places(t),
         NEW in, in.type = x.kind, in.spans = spansOf(x)
  PROVE  Moves(in, t, a, b) <=> Letter(x, t, a, b)
<1>1. x.kind \in Letters /\ x.rune \in Nat
  BY DEF Readable, Lexemes
<1>2. CASE x.kind \in {"bol", "eol"}
  BY <1>2 DEF Moves, Letter
<1>3. CASE x.kind \notin {"bol", "eol"}
  <2>1. Moves(in, t, a, b) <=> b = a + 1 /\ b <= Len(t) /\ Consumes(in, t[b])
    BY <1>1, <1>3 DEF Moves, Letters
  <2>2. ASSUME b = a + 1, b <= Len(t)
        PROVE  t[b] \in Nat
    <3>1. Len(t) \in Nat /\ a \in Nat
      BY DEF Places
    <3>2. b \in 1 .. Len(t)
      BY <2>2, <3>1
    <3> QED BY <3>2
  <2>3. CASE x.kind = "any"
    BY <2>1, <2>3 DEF Letter, Consumes
  <2>4. CASE x.kind = "rune"
    <3>1. in.spans = <<<<x.rune, x.rune>>>>
      BY <2>4 DEF spansOf, Classes
    <3>2. \A r \in Nat : Within(in.spans, r) <=> r = x.rune
      <4>1. DOMAIN in.spans = {1} /\ in.spans[1] = <<x.rune, x.rune>>
        BY <3>1
      <4>2. in.spans[1][1] = x.rune /\ in.spans[1][2] = x.rune
        BY <4>1
      <4>3. \A r \in Nat : Within(in.spans, r) <=> x.rune <= r /\ r <= x.rune
        BY <4>1, <4>2 DEF Within
      <4> QED BY <4>3, <1>1
    <3>3. \A r \in Nat : Consumes(in, r) <=> r = x.rune
      BY <2>4, <3>2 DEF Consumes
    <3> QED BY <2>1, <2>2, <2>4, <3>3 DEF Letter
  <2>5. CASE x.kind = "class"
    <3>1. \A r \in Nat : Consumes(in, r) <=> InClass(x, r)
      BY <2>5 DEF Consumes, spansOf, Classes, Readable, Deciphered
    <3> QED BY <2>1, <2>2, <2>5, <3>1 DEF Letter
  <2>6. CASE x.kind = "nclass"
    <3>1. \A r \in Nat : Consumes(in, r) <=> ~ InClass(x, r)
      BY <2>6 DEF Consumes, spansOf, Classes, Readable, Deciphered
    <3> QED BY <2>1, <2>2, <2>6, <3>1 DEF Letter
  <2> QED BY <1>1, <1>3, <2>3, <2>4, <2>5, <2>6 DEF Letters
<1> QED BY <1>2, <1>3

LEMMA LetterInstruction ==
  ASSUME NEW x, Readable(x), NEW in, in = Inst(x.kind, spansOf(x), 0, 0, 0)
  PROVE  /\ in \in Good /\ in.type = x.kind /\ in.spans = spansOf(x) /\ in.next = 0
         /\ x.kind \notin {"or", "nop", "end"}
<1>1. x.kind \in Letters /\ x.rune \in Nat
  BY DEF Readable, Lexemes
<1>2. in.type = x.kind /\ in.spans = spansOf(x) /\ in.subid = 0 /\ in.right = 0 /\ in.next = 0
  BY DEF Inst
<1>3. x.kind \in Types /\ x.kind \notin {"or", "nop", "end", "(", ")"}
  BY <1>1 DEF Letters, Types
<1>4. spansOf(x) \in Seq(Int \X Int)
  <2>1. CASE x.kind \in Classes
    BY <2>1 DEF spansOf, Readable, Deciphered
  <2>2. CASE x.kind = "rune"
    <3>1. spansOf(x) = <<<<x.rune, x.rune>>>>
      BY <2>2 DEF spansOf, Classes
    <3>2. <<x.rune, x.rune>> \in Int \X Int
      BY <1>1
    <3> QED BY <3>1, <3>2
  <2>3. CASE x.kind \notin Classes /\ x.kind # "rune"
    <3>1. spansOf(x) = <<>>
      BY <2>3 DEF spansOf
    <3> QED BY <3>1
  <2> QED BY <2>1, <2>2, <2>3
<1>5. in \in Instructions
  <2> DEFINE k == x.kind
             sp == spansOf(x)
  <2>1. k \in Types /\ sp \in Seq(Int \X Int) /\ in = Inst(k, sp, 0, 0, 0)
    BY <1>3, <1>4
  <2> HIDE DEF k, sp
  <2> QED BY <2>1 DEF Inst, Instructions
<1>6. in.type = "rune" => \E r \in Nat : in.spans = <<<<r, r>>>>
  BY <1>1, <1>2 DEF spansOf, Classes
<1>7. in.type \notin {"(", ")"}
  BY <1>2, <1>3
<1> QED BY <1>2, <1>3, <1>5, <1>6, <1>7 DEF Good

LEMMA LetterIsCompiled ==
  ASSUME NEW x, Readable(x), NEW prog \in Seq(Good), NEW t \in Seq(Nat),
         NEW i, i = Len(prog) + 1,
         NEW new, new = Append(prog, Inst(x.kind, spansOf(x), 0, 0, 0))
  PROVE  Becomes(prog, new, t, i, Node(i, i), LetterSpans(x, t))
<1> DEFINE in == Inst(x.kind, spansOf(x), 0, 0, 0)
           N == Node(i, i)
           E == Edges(new, t)
           D == Places(t)
<1>0. in = Inst(x.kind, spansOf(x), 0, 0, 0)
  OBVIOUS
<1> HIDE DEF in
<1>1. /\ in \in Good /\ in.type = x.kind /\ in.spans = spansOf(x) /\ in.next = 0
      /\ in.type \notin {"or", "nop", "end"}
  BY <1>0, LetterInstruction
<1>2. Len(prog) \in Nat /\ i \in Nat \ {0} /\ i \in Nat
  BY LenProperties
<1>3. /\ new \in Seq(Good) /\ Len(new) = i /\ new[i] = in
      /\ \A p \in 1 .. i - 1 : new[p] = prog[p]
  <2>1. new = Append(prog, in)
    BY <1>0
  <2>2. new \in Seq(Good) /\ Len(new) = i /\ new[i] = in
    BY <1>1, <2>1, AppendProperties
  <2>3. \A p \in 1 .. Len(prog) : new[p] = prog[p]
    BY <1>1, <2>1, AppendProperties
  <2>4. i - 1 = Len(prog)
    BY <1>2
  <2> QED BY <2>2, <2>3, <2>4
<1>4. N.first = i /\ N.last = i /\ N \in [first : Nat, last : Nat]
  BY <1>2 DEF Node
<1>5. \A p \in i .. i : p = i
  BY <1>2
<1>6. Fragment(new, i, Len(new), N)
  <2>1. i \in i .. i
    BY <1>2
  <2>2. Inner(new, i, i, i)
    BY <1>1, <1>3, <1>5 DEF Inner
  <2> QED BY <1>1, <1>3, <1>4, <2>1, <2>2 DEF Fragment
<1>7. new \in Seq(Instructions) /\ i \in DOMAIN new
  BY <1>2, <1>3, GoodIsInstruction
<1>8. ASSUME NEW a \in D, NEW b \in D
      PROVE  <<a, b>> \in Through(new, t, N) <=> <<a, b>> \in LetterSpans(x, t)
  <2>1. Moves(in, t, a, b) <=> Letter(x, t, a, b)
    BY <1>1, LetterMoves
  <2>2. <<a, b>> \in LetterSpans(x, t) <=> Letter(x, t, a, b)
    BY DEF LetterSpans
  <2>3. <<a, b>> \in Through(new, t, N) <=> Leads(E, D, <<i, a>>, <<0, b>>)
    BY <1>4, ThroughIs
  <2>4. <<<<i, a>>, <<0, b>>>> \in E <=> Moves(in, t, a, b)
    <3>1. <<<<i, a>>, <<0, b>>>> \in E <=> Edge(new, t, i, a, 0, b)
      BY <1>2, EdgesAre
    <3> QED BY <3>1, <1>1, <1>3, <1>7 DEF Edge
  <2>5. <<i, a>> \in Nodes(D) /\ <<0, b>> # <<i, a>> /\ E \in SUBSET (Nodes(D) \X Nodes(D))
    BY <1>2, EdgesAreEdges DEF Nodes
  <2>6. ASSUME Leads(E, D, <<i, a>>, <<0, b>>)
        PROVE  <<<<i, a>>, <<0, b>>>> \in E
    <3>1. PICK z : <<<<i, a>>, z>> \in E /\ Leads(E, D, z, <<0, b>>)
      BY <2>5, <2>6, LeadsFirst
    <3>2. z \in Nodes(D)
      BY <2>5, <3>1
    <3>3. PICK q \in Nat, e \in D : z = <<q, e>>
      BY <3>2 DEF Nodes
    <3>4. Edge(new, t, i, a, q, e)
      BY <1>2, <3>1, <3>3, EdgesAre
    <3>5. q = 0
      BY <3>4, <1>1, <1>3 DEF Edge
    <3>6. b = e
      BY <3>1, <3>3, <3>5, <1>7, ZeroLeads
    <3> QED BY <3>1, <3>3, <3>5, <3>6
  <2>7. ASSUME <<<<i, a>>, <<0, b>>>> \in E
        PROVE  Leads(E, D, <<i, a>>, <<0, b>>)
    BY <2>5, <2>7, LeadsToItself, LeadsOn
  <2> QED BY <2>1, <2>2, <2>3, <2>4, <2>6, <2>7
<1>9. Through(new, t, N) = LetterSpans(x, t)
  <2>1. Through(new, t, N) \in SUBSET (D \X D) /\ LetterSpans(x, t) \in SUBSET (D \X D)
    BY ThroughRelates DEF LetterSpans
  <2>2. Alike(D, Through(new, t, N), LetterSpans(x, t))
    BY <1>8 DEF Alike
  <2> QED BY <2>1, <2>2, SpansAreEqual
<1>10. i <= Len(new)
  BY <1>2, <1>3
<1> QED BY <1>3, <1>4, <1>6, <1>9, <1>10 DEF Becomes

(* An instruction becomes an operand.                                       *)
Operating(p, q, in) ==
    /\ q \in Parsers /\ q.err = "none" /\ q.lastwasand = TRUE
    /\ q.prog = Append(p.prog, in)
    /\ q.ands = Append(p.ands, Node(Len(p.prog) + 1, Len(p.prog) + 1)) /\ q.ators = p.ators
    /\ q.nbra = p.nbra /\ q.cursubid = p.cursubid /\ q.nclass = p.nclass /\ q.start = p.start

LEMMA OperandIsPushed ==
  ASSUME NEW p \in Parsers, p.err = "none", NEW in \in Good, NEW i, i = Len(p.prog) + 1,
         NEW r, r = [p EXCEPT !.prog = Append(@, in)],
         NEW q, q = [pushand(r, Node(i, i)) EXCEPT !.lastwasand = TRUE]
  PROVE  /\ q.err \in {"none", "operand stack overflow"}
         /\ q.err = "none" => Operating(p, q, in)
<1>1. p.prog \in Seq(Good) /\ Len(p.prog) \in Nat /\ i \in Nat
  <2>1. p.prog \in Seq(Good)
    BY DEF Parsers
  <2>2. Len(p.prog) \in Nat
    BY <2>1, LenProperties
  <2> QED BY <2>1, <2>2
<1>2. Append(p.prog, in) \in Seq(Good)
  BY <1>1, AppendProperties
<1>3. r \in Parsers
  BY <1>2, ParserChanged
<1>4. /\ r.err = "none" /\ r.prog = Append(p.prog, in) /\ r.ands = p.ands /\ r.ators = p.ators
      /\ r.nbra = p.nbra /\ r.cursubid = p.cursubid /\ r.nclass = p.nclass /\ r.start = p.start
  BY DEF Parsers
<1> DEFINE N == Node(i, i)
           s == pushand(r, N)
<1>5. N \in Parts
  BY <1>1 DEF Node, Parts
<1> HIDE DEF N
<1>6. /\ s \in Parsers /\ Else(r, s) /\ s.err \in {"none", "operand stack overflow"}
      /\ s.err = "none" => s.ands = Append(r.ands, N) /\ s.prog = r.prog /\ s.ators = r.ators
  BY <1>3, <1>4, <1>5, PushandTyped
<1>7. q = [s EXCEPT !.lastwasand = TRUE]
  BY DEF N
<1> HIDE DEF s
<1>8. /\ q \in Parsers /\ q.lastwasand = TRUE /\ q.err = s.err /\ q.prog = s.prog
      /\ q.ands = s.ands /\ q.ators = s.ators
      /\ q.nbra = s.nbra /\ q.cursubid = s.cursubid /\ q.nclass = s.nclass /\ q.start = s.start
  <2>1. q \in Parsers
    <3> DEFINE v == TRUE
    <3>1. v \in BOOLEAN /\ q = [s EXCEPT !.lastwasand = v]
      BY <1>7
    <3> HIDE DEF v
    <3>2. s \in Parsers
      BY <1>6
    <3>3. [s EXCEPT !.lastwasand = v] \in Parsers
      BY <3>1, <3>2, ParserChanged
    <3> QED BY <3>1, <3>3
  <2> QED BY <2>1, <1>6, <1>7 DEF Parsers
<1> QED BY <1>4, <1>6, <1>8 DEF Operating, Else, N

LEMMA OperandStacked ==
  ASSUME NEW p, NEW nd, NEW nb, Stacked(p, nd, nb), NEW q, NEW in, Operating(p, q, in)
  PROVE  Stacked(q, nd, nb) /\ Len(q.ands) = Len(p.ands) + 1
<1>1. p.ands \in Seq(Parts) /\ q.ands \in Seq(Parts)
  BY OpsAre DEF Operating, Parsers
<1> DEFINE N == Node(Len(p.prog) + 1, Len(p.prog) + 1)
<1>2. N \in Parts
  <2>1. Len(p.prog) + 1 \in Nat
    BY OpsAre, LenProperties
  <2> QED BY <2>1 DEF Node, Parts
<1>3. q.ands = Append(p.ands, N)
  BY DEF Operating
<1> HIDE DEF N
<1>4. Len(q.ands) = Len(p.ands) + 1
  BY <1>1, <1>2, <1>3, AppendProperties
<1> QED BY <1>4 DEF Stacked, Operating

(* The operands that the operators stand for are the first ones.            *)
LEMMA StandingOperands ==
  ASSUME NEW p, NEW nd, NEW nb, Stacked(p, nd, nb),
         NEW V, NEW V2, \A i \in 1 .. nd[Len(p.ators)] : V2[i] = V[i],
         NEW ts, NEW t, NEW at, NEW u, Structured(p.ators, nd, V, ts, t, at, u)
  PROVE  Structured(p.ators, nd, V2, ts, t, at, u)
<1> DEFINE L == Len(p.ators)
<1>1. L \in Nat \ {0} /\ L \in Nat /\ Counts(p.ators, nd, Binary) /\ nd \in [Nat -> Nat]
  BY OpsAre DEF Stacked
<1>2. u \in 1 .. L /\ at \in [Nat -> Nat] /\ at[1] = 0
  BY DEF Structured
<1>3. ASSUME NEW i \in 2 .. u
      PROVE  Standing(p.ators, nd, V2, ts, t, at, i)
  <2>1. i \in 2 .. L /\ i \in 1 .. L /\ L \in 1 .. L
    <3> HIDE DEF L
    <3> QED BY <1>1, <1>2
  <2>2. Standing(p.ators, nd, V, ts, t, at, i)
    BY DEF Structured
  <2>3. ASSUME p.ators[i].op \in Binary
        PROVE  V2[nd[i]] = V[nd[i]]
    <3>5. Counts(p.ators, nd, Binary) /\ Len(p.ators) \in Nat /\ i \in 2 .. Len(p.ators)
      BY <1>1, <2>1
    <3>1. nd[i] = nd[i - 1] + 1 /\ nd[i - 1] \in Nat /\ nd[i] \in Nat
      BY <3>5, <2>3, CountsAt
    <3>2. nd[i] <= nd[L]
      BY <1>1, <2>1, CountsGrow
    <3>3. nd[L] \in Nat
      BY <1>1
    <3>4. nd[i] \in 1 .. nd[L]
      BY <3>1, <3>2, <3>3
    <3> QED BY <3>4
  <2> QED BY <2>2, <2>3 DEF Standing, Binary
<1> QED BY <1>2, <1>3 DEF Structured

(* A letter is a piece.                                                     *)
LEMMA LetterIsPushed ==
  ASSUME NEW p, NEW nd, NEW nb, Stacked(p, nd, nb),
         NEW ts \in Seq(Lexemes), NEW t \in Seq(Nat), NEW k \in Nat, Want(p, nd, ts, t, k),
         NEW l, l = k + 1, l \in 1 .. Len(ts), NEW x, x = ts[l], Readable(x),
         NEW q, Operating(p, q, Inst(x.kind, spansOf(x), 0, 0, 0))
  PROVE  Have(q, nd, ts, t, l, "*")
<1> DEFINE L == Len(p.ators)
           n == Len(q.ands)
           i == Len(p.prog) + 1
           N == Node(i, i)
           R == LetterSpans(x, t)
<1>1. PICK h, V, at :
        /\ LaidOut(p.prog, p.ands, t, h, V) /\ Len(p.ands) = nd[L]
        /\ Structured(p.ators, nd, V, ts, t, at, L) /\ at[L] = k
  BY DEF Want
<1>2. /\ p.prog \in Seq(Good) /\ Len(p.prog) \in Nat /\ p.ands \in Seq(Parts) /\ Len(p.ands) \in Nat
      /\ h \in [Nat -> Nat] /\ h[Len(p.ands)] = Len(p.prog) /\ L \in Nat \ {0} /\ L \in Nat
  <2>1. /\ p.prog \in Seq(Good) /\ p.ands \in Seq(Parts)
        /\ h \in [Nat -> Nat] /\ h[Len(p.ands)] = Len(p.prog)
    BY <1>1 DEF LaidOut
  <2> QED BY <2>1, OpsAre, LenProperties
<1>3. Becomes(p.prog, q.prog, t, i, N, R)
  BY <1>2, LetterIsCompiled DEF Operating
<1>4. q.ands = Append(p.ands, N) /\ q.ators = p.ators
  BY DEF Operating
<1>5. N \in Parts
  <2>2. Len(p.prog) \in Nat
    BY <1>2
  <2>1. i \in Nat
    BY <2>2
  <2> HIDE DEF i
  <2> QED BY <2>1 DEF Node, Parts
<1> HIDE DEF N, R
<1>6. /\ n = Len(p.ands) + 1 /\ q.ands[n] = N /\ q.ands \in Seq(Parts)
      /\ \A m \in 1 .. Len(p.ands) : q.ands[m] = p.ands[m]
  <2> DEFINE s == p.ands
  <2>1. s \in Seq(Parts) /\ q.ands = Append(s, N)
    BY <1>2, <1>4
  <2> HIDE DEF s
  <2>2. /\ Append(s, N) \in Seq(Parts) /\ Len(Append(s, N)) = Len(s) + 1
        /\ Append(s, N)[Len(s) + 1] = N /\ \A m \in 1 .. Len(s) : Append(s, N)[m] = s[m]
    BY <2>1, <1>5, AppendProperties
  <2> QED BY <2>1, <2>2 DEF s
<1>7. n - 1 = Len(p.ands) /\ n \in 1 .. Len(p.ands) + 1
  <2> DEFINE c == Len(p.ands)
  <2>1. c \in Nat /\ n = c + 1
    BY <1>2, <1>6
  <2> HIDE DEF c, n
  <2>2. n - 1 = c /\ n \in 1 .. c + 1
    BY <2>1
  <2> QED BY <2>2 DEF c
<1>8. OperandMade(p.prog, q.prog, p.ands, q.ands, t, h, n, R)
  BY <1>2, <1>3, <1>6, <1>7 DEF OperandMade
<1>9. Relaid(q.prog, q.ands, t, V, n, R)
  BY <1>1, <1>8, OperandReplaced
<1>10. PICK h2, V2 : /\ LaidOut(q.prog, q.ands, t, h2, V2)
                     /\ V2[n] = R
                     /\ \A m \in 1 .. n - 1 : V2[m] = V[m]
  BY <1>9 DEF Relaid
<1>11. Structured(p.ators, nd, V2, ts, t, at, L)
  <2>1. \A m \in 1 .. nd[L] : V2[m] = V[m]
    BY <1>1, <1>7, <1>10
  <2> QED BY <2>1, <1>1, StandingOperands
<1>12. Spells(ts, t, "piece", at[L], l, R)
  <2>1. Means(ts, t, "piece", l, l, R)
    BY LetterMeans DEF R, Readable
  <2>2. at[L] + 1 = l
    BY <1>1
  <2> QED BY <2>1, <2>2 DEF Spells
<1>13. R \in Spans(t)
  BY <1>12, MeansTyped DEF Spells, Spans
<1> DEFINE w == [m \in Nat |-> R]
<1>14. w \in [Nat -> Spans(t)] /\ w[L] = R /\ L + 1 .. L = {}
  <2>1. L \in Nat
    BY <1>2
  <2> HIDE DEF L
  <2> QED BY <2>1, <1>13
<1> HIDE DEF w
<1>15. Applying(q.ators, L, w, t, V2[n])
  BY <1>4, <1>10, <1>14 DEF Applying
<1>16. Had(q.ators, nd, V2, ts, t, l, at, L, w, n, "*")
  BY <1>4, <1>11, <1>12, <1>14, <1>15 DEF Had, Fits
<1>17. n = nd[Len(q.ators)] + 1
  BY <1>1, <1>4, <1>6
<1> QED BY <1>10, <1>16, <1>17 DEF Have

-----------------------------------------------------------------------------
(* Tokens                                                                  *)

Wanting(p, nd, ts, t, k) == Lacks(p, nd, 0) \/ Want(p, nd, ts, t, k)
Having(p, nd, ts, t, k, pri) == Lacks(p, nd, 1) \/ Have(p, nd, ts, t, k, pri)

(* The parser after k tokens: either operands are missing for good, or the   *)
(* stacks hold what the grammar makes of the tokens.                       *)
Consumed(p, nd, nb, ts, t, k) ==
    /\ Stacked(p, nd, nb) /\ p.err = "none"
    /\ IF p.lastwasand THEN Having(p, nd, ts, t, k, "*") ELSE Wanting(p, nd, ts, t, k)
Parsed(p, nd, nb, ts, t, k) ==
    Consumed(p, nd, nb, ts, t, k) /\ p.nbra = nb[Len(p.ators)]

(* Parsers with the same stacks.                                            *)
Stacks(p, q) ==
    /\ q \in Parsers /\ q.err = "none"
    /\ q.prog = p.prog /\ q.ands = p.ands /\ q.ators = p.ators

LEMMA SameStacks ==
  ASSUME NEW p, NEW q, Stacks(p, q), NEW nd, NEW nb, Stacked(p, nd, nb), NEW ts, NEW t, NEW k
  PROVE  /\ Stacked(q, nd, nb)
         /\ \A pri : Having(p, nd, ts, t, k, pri) <=> Having(q, nd, ts, t, k, pri)
         /\ Wanting(p, nd, ts, t, k) <=> Wanting(q, nd, ts, t, k)
<1>1. q.prog = p.prog /\ q.ands = p.ands /\ q.ators = p.ators /\ q \in Parsers
  BY DEF Stacks
<1>2. Stacked(q, nd, nb)
  BY <1>1 DEF Stacked
<1>3. ASSUME NEW pri
      PROVE  Having(p, nd, ts, t, k, pri) <=> Having(q, nd, ts, t, k, pri)
  BY <1>1 DEF Having, Lacks, Have, TopOp
<1>4. Wanting(p, nd, ts, t, k) <=> Wanting(q, nd, ts, t, k)
  BY <1>1 DEF Wanting, Lacks, Want
<1> QED BY <1>2, <1>3, <1>4

LEMMA HaveForAll ==
  ASSUME NEW p, NEW nd, NEW ts, NEW t, NEW k, Having(p, nd, ts, t, k, "*"), NEW pri
  PROVE  Having(p, nd, ts, t, k, pri)
<1>1. \A kind, op : Fits(kind, op, "*") => Fits(kind, op, pri)
  BY DEF Fits, Unary
<1>2. \A ators, V, at, u, w, m :
         Had(ators, nd, V, ts, t, k, at, u, w, m, "*") => Had(ators, nd, V, ts, t, k, at, u, w, m, pri)
  BY <1>1 DEF Had
<1> QED BY <1>2 DEF Having, Have

(* Where an operand is wanted it is not there.                              *)
LEMMA ConsumedHas ==
  ASSUME NEW p, NEW nd, NEW nb, NEW ts, NEW t, NEW k, Consumed(p, nd, nb, ts, t, k), NEW pri
  PROVE  Having(p, nd, ts, t, k, pri)
<1>1. CASE p.lastwasand
  BY <1>1, HaveForAll DEF Consumed
<1>2. CASE ~ p.lastwasand
  <2>1. Wanting(p, nd, ts, t, k)
    BY <1>2 DEF Consumed
  <2>2. Len(p.ands) < nd[Len(p.ators)] + 0 \/ Len(p.ands) = nd[Len(p.ators)]
    BY <2>1 DEF Wanting, Want, Lacks
  <2>3. Len(p.ands) \in Nat /\ nd[Len(p.ators)] \in Nat
    BY OpsAre DEF Consumed
  <2>4. Len(p.ands) < nd[Len(p.ators)] + 1
    BY <2>2, <2>3
  <2> QED BY <2>4 DEF Having, Lacks
<1> QED BY <1>1, <1>2

(* After reductions as many are missing.                                    *)
LEMMA EvaluationHas ==
  ASSUME NEW p, NEW nd, NEW nb, Stacked(p, nd, nb), p.err = "none",
         NEW pri \in Priorities, Matched(p, nb, pri), NEW q, q = evaluntil(p, pri), q.err = "none",
         NEW ts \in Seq(Lexemes), NEW t \in Seq(Nat), NEW k \in Nat, Closing(ts, k, pri),
         Having(p, nd, ts, t, k, pri)
  PROVE  /\ Stacked(q, nd, nb) /\ Else(p, q)
         /\ IF pri = ")"
            THEN nb[Len(q.ators)] = nb[Len(p.ators)] - 1 /\ Having(q, nd, ts, t, k + 1, "*")
            ELSE nb[Len(q.ators)] = nb[Len(p.ators)] /\ ~ Tight(q, pri) /\ Having(q, nd, ts, t, k, pri)
<1>1. /\ After(p, q, nd, nb)
      /\ IF pri = ")"
         THEN /\ nb[Len(q.ators)] = nb[Len(p.ators)] - 1
              /\ Have(p, nd, ts, t, k, pri) => Have(q, nd, ts, t, k + 1, "*")
         ELSE /\ nb[Len(q.ators)] = nb[Len(p.ators)] /\ ~ Tight(q, pri)
              /\ Have(p, nd, ts, t, k, pri) => Have(q, nd, ts, t, k, pri)
  BY EvaluationKeeps
<1>2. Stacked(q, nd, nb) /\ Else(p, q)
  BY <1>1 DEF After
<1>3. Lacks(p, nd, 1) => Lacks(q, nd, 1)
  <2> DEFINE a == nd[Len(p.ators)]
             b == nd[Len(q.ators)]
             c == Len(p.ands)
             d == Len(q.ands)
  <2>1. a \in Nat /\ b \in Nat /\ c \in Nat /\ d \in Nat
    BY <1>2, OpsAre
  <2>2. b - d = a - c
    BY <1>1 DEF After
  <2> HIDE DEF a, b, c, d
  <2>3. c < a + 1 => d < b + 1
    BY <2>1, <2>2
  <2> QED BY <2>3 DEF Lacks, a, b, c, d
<1> QED BY <1>1, <1>2, <1>3 DEF Having

(* An operator that is pushed: as many operands are missing as before if it   *)
(* has one operand, and one more if it has two.                            *)
LEMMA PushLacks ==
  ASSUME NEW p, NEW q, NEW op, NEW nd, NEW nb, NEW nd2, NEW nb2, Pushes(p, q, op, nd, nb, nd2, nb2),
         Stacked(p, nd, nb), NEW n \in Nat, NEW l, l = n + 1
  PROVE  /\ op \in Binary => (Lacks(p, nd, l) => Lacks(q, nd2, n))
         /\ op \notin Binary => (Lacks(p, nd, n) => Lacks(q, nd2, n))
         /\ op = "(" => nb2[Len(q.ators)] = nb[Len(p.ators)] + 1
         /\ op # "(" => nb2[Len(q.ators)] = nb[Len(p.ators)]
<1> DEFINE a == nd[Len(p.ators)]
           b == nd2[Len(q.ators)]
           c == Len(p.ands)
           e == nb[Len(p.ators)]
<1>1. TopOp(q) = op /\ Len(q.ands) = c
  BY DEF Pushes, Pushing, TopOp
<1>2. a \in Nat /\ b \in Nat /\ c \in Nat /\ e \in Nat
  BY OpsAre DEF Pushes
<1>3. b = a + (IF op \in Binary THEN 1 ELSE 0)
  BY <1>1 DEF Pushes, Counting
<1>4. nb2[Len(q.ators)] = e + (IF op \in {"("} THEN 1 ELSE 0)
  BY <1>1 DEF Pushes, Counting
<1> HIDE DEF a, b, c, e
<1>5. op \in Binary => (c < a + l => c < b + n)
  BY <1>2, <1>3
<1>6. op \notin Binary => (c < a + n => c < b + n)
  BY <1>2, <1>3
<1>7. /\ op \in Binary => (Lacks(p, nd, l) => Lacks(q, nd2, n))
      /\ op \notin Binary => (Lacks(p, nd, n) => Lacks(q, nd2, n))
  BY <1>1, <1>5, <1>6 DEF Lacks, a, b, c
<1>8. /\ op = "(" => nb2[Len(q.ators)] = nb[Len(p.ators)] + 1
      /\ op # "(" => nb2[Len(q.ators)] = nb[Len(p.ators)]
  BY <1>2, <1>4 DEF e
<1> QED BY <1>7, <1>8

(* An operand is wanted, and the brackets are as they were.                 *)
Ripe(p, q, nb, ts, t, k) ==
    /\ q.err = "none" /\ q.nbra = p.nbra /\ q.cursubid = p.cursubid
    /\ \E nd2, nb2 : /\ Stacked(q, nd2, nb2) /\ nb2[Len(q.ators)] = nb[Len(p.ators)]
                     /\ Wanting(q, nd2, ts, t, k)

LEMMA CatIs ==
  ASSUME NEW p, NEW nd, NEW nb, NEW ts \in Seq(Lexemes), NEW t \in Seq(Nat), NEW k \in Nat,
         Consumed(p, nd, nb, ts, t, k), NEW q, q = Cat(p), q.err = "none", RegexpAssumption
  PROVE  Ripe(p, q, nb, ts, t, k)
<1>1. CASE ~ p.lastwasand
  <2>1. q = p
    BY <1>1 DEF Cat
  <2> QED BY <1>1, <2>1 DEF Ripe, Consumed
<1>2. CASE p.lastwasand
  <2> DEFINE r == evaluntil(p, "cat")
  <2>1. q = Pushed(r, "cat") /\ r = evaluntil(p, "cat")
    BY <1>2 DEF Cat
  <2>2. Stacked(p, nd, nb) /\ p.err = "none" /\ Having(p, nd, ts, t, k, "cat")
    BY ConsumedHas DEF Consumed
  <2> HIDE DEF r
  <2>3. r.err = "none"
    BY <2>1 DEF Pushed
  <2>4. "cat" \in Priorities /\ Matched(p, nb, "cat") /\ Closing(ts, k, "cat") /\ "cat" # ")"
    BY DEF Priorities, Matched, Closing
  <2>5. /\ Stacked(r, nd, nb) /\ Else(p, r)
        /\ nb[Len(r.ators)] = nb[Len(p.ators)] /\ ~ Tight(r, "cat") /\ Having(r, nd, ts, t, k, "cat")
    BY <2>1, <2>2, <2>3, <2>4, EvaluationHas
  <2>6. "cat" \in {"("} \cup Binary \cup Unary /\ "cat" \in Binary /\ "cat" # "("
    BY DEF Binary
  <2>7. PICK nd2, nb2 : Pushes(r, q, "cat", nd, nb, nd2, nb2)
    BY <2>1, <2>5, <2>6, PushStacked
  <2>8. Lacks(r, nd, 1) => Lacks(q, nd2, 0)
    BY <2>5, <2>6, <2>7, PushLacks, 1 = 0 + 1, 0 \in Nat
  <2>9. Have(r, nd, ts, t, k, "cat") => Want(q, nd2, ts, t, k)
    BY <2>5, <2>7, CatIsPushed
  <2>10. Wanting(q, nd2, ts, t, k)
    BY <2>5, <2>8, <2>9 DEF Having, Wanting
  <2>11. nb2[Len(q.ators)] = nb[Len(r.ators)]
    BY <2>5, <2>6, <2>7, PushLacks, 1 = 0 + 1, 0 \in Nat
  <2>12. q.nbra = p.nbra /\ q.cursubid = p.cursubid /\ Stacked(q, nd2, nb2)
    BY <2>5, <2>7 DEF Pushes, Pushing, Else
  <2> QED BY <2>5, <2>10, <2>11, <2>12 DEF Ripe
<1> QED BY <1>1, <1>2

Proceeds(q, ts, t, k) == \E nd, nb : Parsed(q, nd, nb, ts, t, k)

LEMMA LetterParses ==
  ASSUME NEW p, NEW nd, NEW nb, NEW ts \in Seq(Lexemes), NEW t \in Seq(Nat), NEW k \in Nat,
         Parsed(p, nd, nb, ts, t, k), NEW l, l = k + 1, l \in 1 .. Len(ts),
         NEW x, x = ts[l], Readable(x), NEW q, q = operand(p, x), q.err = "none", RegexpAssumption
  PROVE  Proceeds(q, ts, t, l)
<1> DEFINE c == Cat(p)
           in == Inst(x.kind, spansOf(x), 0, 0, 0)
           i == Len(c.prog) + 1
           r == [c EXCEPT !.prog = Append(@, in)]
<1>1. IF c.err # "none" THEN q = c ELSE q = [pushand(r, Node(i, i)) EXCEPT !.lastwasand = TRUE]
  BY DEF operand
<1>2. c = Cat(p) /\ in = Inst(x.kind, spansOf(x), 0, 0, 0) /\ i = Len(c.prog) + 1
      /\ r = [c EXCEPT !.prog = Append(@, in)]
  OBVIOUS
<1> HIDE DEF c, in, i, r
<1>3. c.err = "none" /\ q = [pushand(r, Node(i, i)) EXCEPT !.lastwasand = TRUE]
  BY <1>1
<1>4. Ripe(p, c, nb, ts, t, k)
  BY <1>2, <1>3, CatIs DEF Parsed
<1>5. PICK nd2, nb2 : /\ Stacked(c, nd2, nb2) /\ nb2[Len(c.ators)] = nb[Len(p.ators)]
                      /\ Wanting(c, nd2, ts, t, k)
  BY <1>4 DEF Ripe
<1>6. in \in Good
  BY <1>2, LetterInstruction
<1>7. c \in Parsers
  BY <1>5 DEF Stacked
<1>8. Operating(c, q, in)
  BY <1>2, <1>3, <1>6, <1>7, OperandIsPushed
<1>9. Stacked(q, nd2, nb2) /\ Len(q.ands) = Len(c.ands) + 1
  BY <1>5, <1>8, OperandStacked
<1>10. q.ators = c.ators /\ q.lastwasand = TRUE /\ q.nbra = c.nbra /\ q.err = "none"
  BY <1>8 DEF Operating
<1>11. Lacks(c, nd2, 0) => Lacks(q, nd2, 1)
  <2> DEFINE a == nd2[Len(c.ators)]
             b == Len(c.ands)
             e == Len(q.ands)
  <2>1. a \in Nat /\ b \in Nat /\ e = b + 1
    BY <1>5, <1>9, OpsAre
  <2> HIDE DEF a, b, e
  <2>2. b < a + 0 => e < a + 1
    BY <2>1
  <2> QED BY <2>2, <1>10 DEF Lacks, a, b, e
<1>12. Want(c, nd2, ts, t, k) => Have(q, nd2, ts, t, l, "*")
  BY <1>2, <1>5, <1>8, LetterIsPushed
<1>13. Having(q, nd2, ts, t, l, "*")
  BY <1>5, <1>11, <1>12 DEF Wanting, Having
<1>14. q.nbra = nb2[Len(q.ators)]
  BY <1>4, <1>5, <1>10 DEF Ripe, Parsed
<1> QED BY <1>9, <1>10, <1>13, <1>14 DEF Proceeds, Parsed, Consumed

LEMMA OpenParses ==
  ASSUME NEW p, NEW nd, NEW nb, NEW ts \in Seq(Lexemes), NEW t \in Seq(Nat), NEW k \in Nat,
         Parsed(p, nd, nb, ts, t, k), NEW l, l = k + 1, ts[l].kind = "(",
         NEW q, q = operator(p, "("), q.err = "none", RegexpAssumption
  PROVE  Proceeds(q, ts, t, l)
<1> DEFINE r == [p EXCEPT !.cursubid = @ + 1, !.nbra = @ + 1]
           c == Cat(r)
<1>0. p \in Parsers /\ p.err = "none" /\ Stacked(p, nd, nb)
  BY DEF Parsed, Consumed, Stacked
<1>1. IF p.cursubid + 1 >= NSubexp THEN q = rcerror(p, "too many subexpressions")
      ELSE q = Pushed(c, "(")
  BY DEF operator
<1>2. rcerror(p, "too many subexpressions").err # "none"
  <2>1. "too many subexpressions" \in Errors /\ "too many subexpressions" # "none"
    BY DEF Errors
  <2> QED BY <2>1, <1>0, ErrorTyped
<1>3. p.cursubid \in Nat /\ p.nbra \in Nat /\ NSubexp \in Nat
  BY <1>0 DEF Parsers, RegexpAssumption
<1>4. ~ (p.cursubid + 1 >= NSubexp) /\ q = Pushed(c, "(")
  BY <1>1, <1>2
<1>5. r \in Parsers /\ r.cursubid # 0 /\ r.nbra = p.nbra + 1
  <2> DEFINE v == p.cursubid + 1
             w == p.nbra + 1
  <2>1. v \in 0 .. NSubexp - 1 /\ w \in Nat /\ v # 0
    <3> DEFINE a == p.cursubid
               b == p.nbra
    <3>1. a \in Nat /\ b \in Nat /\ NSubexp \in Nat /\ ~ (a + 1 >= NSubexp)
      BY <1>3, <1>4
    <3>2. v = a + 1 /\ w = b + 1
      OBVIOUS
    <3> HIDE DEF a, b, v, w
    <3> QED BY <3>1, <3>2
  <2>2. r = [p EXCEPT !.cursubid = v, !.nbra = w]
    OBVIOUS
  <2> HIDE DEF v, w, r
  <2>3. r \in Parsers /\ r.cursubid = v /\ r.nbra = w
    BY <1>0, <2>1, <2>2 DEF Parsers
  <2> QED BY <2>1, <2>3 DEF w
<1>6. Stacks(p, r) /\ r.lastwasand = p.lastwasand
  BY <1>0, <1>5 DEF Stacks, Parsers
<1>7. c = Cat(r)
  OBVIOUS
<1> HIDE DEF r, c
<1>8. Consumed(r, nd, nb, ts, t, k)
  <2>1. /\ Stacked(r, nd, nb) /\ (Having(p, nd, ts, t, k, "*") <=> Having(r, nd, ts, t, k, "*"))
        /\ (Wanting(p, nd, ts, t, k) <=> Wanting(r, nd, ts, t, k))
    BY <1>0, <1>6, SameStacks
  <2> QED BY <2>1, <1>6 DEF Parsed, Consumed, Stacks
<1>9. c.err = "none"
  BY <1>4 DEF Pushed
<1>10. Ripe(r, c, nb, ts, t, k)
  BY <1>7, <1>8, <1>9, CatIs
<1>11. PICK nd2, nb2 : /\ Stacked(c, nd2, nb2) /\ nb2[Len(c.ators)] = nb[Len(r.ators)]
                       /\ Wanting(c, nd2, ts, t, k)
  BY <1>10 DEF Ripe
<1>12. "(" \in {"("} \cup Binary \cup Unary /\ "(" \notin Binary /\ "(" \notin Unary
  BY DEF Binary, Unary
<1>13. c.cursubid # 0 /\ c.nbra = p.nbra + 1
  BY <1>5, <1>10 DEF Ripe
<1>14. PICK nd3, nb3 : Pushes(c, q, "(", nd2, nb2, nd3, nb3)
  BY <1>4, <1>11, <1>12, <1>13, PushStacked
<1>15. Lacks(c, nd2, 0) => Lacks(q, nd3, 0)
  BY <1>11, <1>12, <1>14, PushLacks, 1 = 0 + 1, 0 \in Nat
<1>16. nb3[Len(q.ators)] = nb2[Len(c.ators)] + 1
  BY <1>11, <1>12, <1>14, PushLacks, 1 = 0 + 1, 0 \in Nat
<1>17. Want(c, nd2, ts, t, k) => Want(q, nd3, ts, t, l)
  BY <1>11, <1>14, BracketIsPushed
<1>18. Wanting(q, nd3, ts, t, l)
  BY <1>11, <1>15, <1>17 DEF Wanting
<1>19. /\ Stacked(q, nd3, nb3) /\ q.err = "none" /\ q.lastwasand = FALSE /\ q.nbra = c.nbra
  <2>1. Stacked(q, nd3, nb3) /\ q.err = "none" /\ q.nbra = c.nbra
    BY <1>14 DEF Pushes, Pushing
  <2>2. q.lastwasand = ("(" \in Unary)
    BY <1>14 DEF Pushes, Pushing
  <2>3. ("(" \in Unary) = FALSE
    BY <1>12
  <2> QED BY <2>1, <2>2, <2>3
<1>20. q.nbra = nb3[Len(q.ators)]
  BY <1>6, <1>11, <1>13, <1>16, <1>19 DEF Stacks, Parsed
<1> QED BY <1>18, <1>19, <1>20 DEF Proceeds, Parsed, Consumed

(* A bar, or an operator of one operand: what binds more tightly is reduced. *)
LEMMA OperatorParses ==
  ASSUME NEW p, NEW nd, NEW nb, NEW ts \in Seq(Lexemes), NEW t \in Seq(Nat), NEW k \in Nat,
         Parsed(p, nd, nb, ts, t, k), NEW l, l = k + 1, l \in 1 .. Len(ts),
         NEW op \in {"|"} \cup Unary, ts[l].kind = op,
         NEW q, q = operator(p, op), q.err = "none", RegexpAssumption
  PROVE  Proceeds(q, ts, t, l)
<1> DEFINE r == evaluntil(p, op)
<1>1. op \notin {")", "(", "cat"} /\ op \in Priorities /\ op \in {"("} \cup Binary \cup Unary
  BY DEF Priorities, Binary, Unary
<1>2. q = Pushed(r, op) /\ r = evaluntil(p, op)
  BY <1>1 DEF operator
<1> HIDE DEF r
<1>3. r.err = "none"
  BY <1>2 DEF Pushed
<1>4. Stacked(p, nd, nb) /\ p.err = "none" /\ Having(p, nd, ts, t, k, op)
  BY ConsumedHas DEF Parsed, Consumed
<1>5. Matched(p, nb, op) /\ Closing(ts, k, op)
  BY <1>1 DEF Matched, Closing, Unary
<1>6. /\ Stacked(r, nd, nb) /\ Else(p, r)
      /\ nb[Len(r.ators)] = nb[Len(p.ators)] /\ ~ Tight(r, op) /\ Having(r, nd, ts, t, k, op)
  BY <1>1, <1>2, <1>3, <1>4, <1>5, EvaluationHas
<1>7. PICK nd2, nb2 : Pushes(r, q, op, nd, nb, nd2, nb2)
  BY <1>1, <1>2, <1>6, PushStacked
<1>8. nb2[Len(q.ators)] = nb[Len(r.ators)]
  BY <1>1, <1>6, <1>7, PushLacks, 1 = 0 + 1, 0 \in Nat
<1>9. Stacked(q, nd2, nb2) /\ q.nbra = r.nbra /\ q.lastwasand = (op \in Unary)
  BY <1>7 DEF Pushes, Pushing
<1>10. q.nbra = nb2[Len(q.ators)]
  BY <1>6, <1>8, <1>9 DEF Else, Parsed
<1>11. CASE op = "|"
  <2>1. op \in Binary /\ op \notin Unary
    BY <1>11 DEF Binary, Unary
  <2>2. Lacks(r, nd, 1) => Lacks(q, nd2, 0)
    BY <2>1, <1>6, <1>7, PushLacks, 1 = 0 + 1, 0 \in Nat
  <2>3. Have(r, nd, ts, t, k, "|") => Want(q, nd2, ts, t, l)
    BY <1>6, <1>7, <1>11, BarIsPushed
  <2>4. Wanting(q, nd2, ts, t, l)
    BY <1>6, <1>11, <2>2, <2>3 DEF Having, Wanting
  <2>5. ~ q.lastwasand
    BY <1>9, <2>1
  <2> QED BY <1>9, <1>10, <2>4, <2>5 DEF Proceeds, Parsed, Consumed
<1>12. CASE op \in Unary
  <2>1. op \notin Binary
    BY <1>12 DEF Binary, Unary
  <2>2. Lacks(r, nd, 1) => Lacks(q, nd2, 1)
    BY <2>1, <1>6, <1>7, PushLacks, 2 = 1 + 1, 1 \in Nat
  <2>3. Have(r, nd, ts, t, k, op) => Have(q, nd2, ts, t, l, "*")
    <3>1. l <= Len(ts)
      OBVIOUS
    <3> QED BY <3>1, <1>6, <1>7, <1>12, UnaryIsPushed
  <2>4. Having(q, nd2, ts, t, l, "*")
    BY <1>6, <2>2, <2>3 DEF Having
  <2>5. q.lastwasand
    BY <1>9, <1>12
  <2> QED BY <1>9, <1>10, <2>4, <2>5 DEF Proceeds, Parsed, Consumed
<1> QED BY <1>11, <1>12

LEMMA CloseParses ==
  ASSUME NEW p, NEW nd, NEW nb, NEW ts \in Seq(Lexemes), NEW t \in Seq(Nat), NEW k \in Nat,
         Parsed(p, nd, nb, ts, t, k), NEW l, l = k + 1, l \in 1 .. Len(ts), ts[l].kind = ")",
         NEW q, q = operator(p, ")"), q.err = "none"
  PROVE  Proceeds(q, ts, t, l)
<1> DEFINE r == [p EXCEPT !.nbra = @ - 1]
           c == evaluntil(r, ")")
<1>1. p \in Parsers /\ p.err = "none" /\ Stacked(p, nd, nb)
  BY DEF Parsed, Consumed, Stacked
<1>2. IF p.nbra = 0 THEN q = rcerror(p, "unmatched right paren")
      ELSE q = [c EXCEPT !.lastwasand = TRUE]
  BY DEF operator
<1>3. rcerror(p, "unmatched right paren").err # "none"
  <2>1. "unmatched right paren" \in Errors /\ "unmatched right paren" # "none"
    BY DEF Errors
  <2> QED BY <2>1, <1>1, ErrorTyped
<1>4. p.nbra \in Nat /\ p.nbra # 0 /\ q = [c EXCEPT !.lastwasand = TRUE]
  BY <1>1, <1>2, <1>3 DEF Parsers
<1>5. r \in Parsers /\ r.nbra = p.nbra - 1 /\ r.lastwasand = p.lastwasand
  <2> DEFINE v == p.nbra - 1
  <2>1. v \in Nat
    BY <1>4
  <2>2. r = [p EXCEPT !.nbra = v]
    OBVIOUS
  <2> HIDE DEF v, r
  <2>3. r \in Parsers /\ r.nbra = v /\ r.lastwasand = p.lastwasand
    BY <1>1, <2>1, <2>2 DEF Parsers
  <2> QED BY <2>3 DEF v
<1>6. Stacks(p, r)
  BY <1>1, <1>5 DEF Stacks, Parsers
<1>7. c = evaluntil(r, ")")
  OBVIOUS
<1> HIDE DEF r, c
<1>8. Stacked(r, nd, nb) /\ Having(r, nd, ts, t, k, ")") /\ r.err = "none"
  <2>1. Having(p, nd, ts, t, k, ")")
    BY ConsumedHas DEF Parsed
  <2> QED BY <2>1, <1>1, <1>6, SameStacks DEF Stacks
<1>9. nb[Len(r.ators)] = p.nbra
  BY <1>6 DEF Stacks, Parsed
<1>10. Matched(r, nb, ")") /\ ")" \in Priorities
  BY <1>4, <1>9 DEF Matched, Priorities
<1>11. Closing(ts, k, ")")
  <2>1. k + 1 <= Len(ts) /\ ts[k + 1].kind = ")"
    OBVIOUS
  <2> QED BY <2>1 DEF Closing
<1>12. /\ c.err = "none" =>
             /\ Stacked(c, nd, nb) /\ Else(r, c)
             /\ nb[Len(c.ators)] = nb[Len(r.ators)] - 1 /\ Having(c, nd, ts, t, l, "*")
  BY <1>7, <1>8, <1>10, <1>11, EvaluationHas
<1>13. c \in Parsers
  <2>1. Keeps(nd, nb, ")", Parsers, Parsers)
    BY ReduceCounts DEF Keeps, Stacked
  <2>2. r \in Parsers
    BY <1>5
  <2> QED BY <2>1, <2>2, <1>7, <1>8, <1>10, Evaluation
<1>14. Stacks(c, q) /\ q.lastwasand = TRUE /\ q.nbra = c.nbra /\ c.err = "none"
  <2>1. q \in Parsers
    BY <1>4, <1>13, ParserChanged
  <2>2. /\ q.prog = c.prog /\ q.ands = c.ands /\ q.ators = c.ators /\ q.err = c.err
        /\ q.lastwasand = TRUE /\ q.nbra = c.nbra
    BY <1>4, <1>13 DEF Parsers
  <2> QED BY <2>1, <2>2 DEF Stacks
<1>15. Stacked(q, nd, nb) /\ Having(q, nd, ts, t, l, "*")
  BY <1>12, <1>14, SameStacks
<1>16. q.nbra = nb[Len(q.ators)]
  <2>1. Len(q.ators) = Len(c.ators) /\ q.nbra = r.nbra
    BY <1>12, <1>14 DEF Stacks, Else
  <2>2. nb[Len(c.ators)] = p.nbra - 1
    BY <1>9, <1>12, <1>14
  <2> QED BY <2>1, <2>2, <1>5
<1> QED BY <1>14, <1>15, <1>16 DEF Proceeds, Parsed, Consumed, Stacks

(* Classes are read right.                                                  *)
Legible(x) == x.kind \in Classes /\ ~ Malformed(x) => Deciphered(x)

LEMMA LexedIs ==
  ASSUME NEW p, p \in Parsers, p.err = "none", NEW x, NEW q, q = Lexed(p, x), q.err = "none"
  PROVE  /\ Stacks(p, q) /\ q.nbra = p.nbra /\ q.cursubid = p.cursubid
         /\ q.lastwasand = p.lastwasand /\ (x.kind \in Classes => ~ Malformed(x))
<1>1. CASE x.kind \notin Classes
  BY <1>1 DEF Lexed, Stacks
<1>2. CASE x.kind \in Classes
  <2>1. /\ "too many character classes" \in Errors /\ "malformed '[]'" \in Errors
        /\ "too many character classes" # "none" /\ "malformed '[]'" # "none"
    BY DEF Errors
  <2>2. ~ (p.nclass >= NClass)
    BY <1>2, <2>1, ErrorTyped DEF Lexed
  <2>3. ~ Malformed(x)
    BY <1>2, <2>1, <2>2, ErrorTyped DEF Lexed
  <2>4. q = [p EXCEPT !.nclass = @ + 1]
    BY <1>2, <2>2, <2>3 DEF Lexed
  <2>5. /\ q \in Parsers /\ q.err = p.err /\ q.prog = p.prog /\ q.ands = p.ands
        /\ q.ators = p.ators /\ q.nbra = p.nbra /\ q.cursubid = p.cursubid
        /\ q.lastwasand = p.lastwasand
    <3> DEFINE v == p.nclass + 1
    <3>1. v \in Nat
      BY DEF Parsers
    <3>2. q = [p EXCEPT !.nclass = v]
      BY <2>4
    <3> HIDE DEF v
    <3> QED BY <3>1, <3>2 DEF Parsers
  <2> QED BY <1>2, <2>3, <2>5 DEF Stacks
<1> QED BY <1>1, <1>2

(* The parser takes a token.                                                *)
LEMMA TokenParses ==
  ASSUME NEW p, NEW nd, NEW nb, NEW ts \in Seq(Lexemes), NEW t \in Seq(Nat), NEW k \in Nat,
         Parsed(p, nd, nb, ts, t, k), NEW l, l = k + 1, l \in 1 .. Len(ts),
         NEW x, x = ts[l], Legible(x),
         NEW q, q = Token(p, x), q.err = "none", RegexpAssumption
  PROVE  Proceeds(q, ts, t, l)
<1> DEFINE r == Lexed(p, x)
<1>1. x \in Lexemes
  BY ElementOfSeq
<1>2. x.kind \in Letters \cup Operators
  BY <1>1 DEF Lexemes
<1>3. r = Lexed(p, x)
  OBVIOUS
<1>4. IF r.err # "none" THEN q = r
      ELSE IF x.kind \in Operators THEN q = operator(r, x.kind) ELSE q = operand(r, x)
  BY DEF Token
<1> HIDE DEF r
<1>5. p \in Parsers /\ p.err = "none" /\ Stacked(p, nd, nb)
  BY DEF Parsed, Consumed, Stacked
<1>6. r.err = "none"
  BY <1>4
<1>7. /\ Stacks(p, r) /\ r.nbra = p.nbra /\ r.cursubid = p.cursubid
      /\ r.lastwasand = p.lastwasand /\ (x.kind \in Classes => ~ Malformed(x))
  BY <1>3, <1>5, <1>6, LexedIs
<1>8. Parsed(r, nd, nb, ts, t, k)
  <2>1. /\ Stacked(r, nd, nb) /\ (Having(p, nd, ts, t, k, "*") <=> Having(r, nd, ts, t, k, "*"))
        /\ (Wanting(p, nd, ts, t, k) <=> Wanting(r, nd, ts, t, k))
    BY <1>5, <1>7, SameStacks
  <2> QED BY <2>1, <1>7 DEF Parsed, Consumed, Stacks
<1>9. CASE x.kind \in Operators
  <2>1. q = operator(r, x.kind)
    BY <1>4, <1>6, <1>9
  <2>2. x.kind \in {"(", ")"} \cup ({"|"} \cup Unary)
    BY <1>9 DEF Operators, Unary
  <2>3. CASE x.kind = "("
    BY <1>8, <2>1, <2>3, OpenParses
  <2>4. CASE x.kind = ")"
    BY <1>8, <2>1, <2>4, CloseParses
  <2>5. CASE x.kind \in {"|"} \cup Unary
    BY <1>8, <2>1, <2>5, OperatorParses
  <2> QED BY <2>2, <2>3, <2>4, <2>5
<1>10. CASE x.kind \notin Operators
  <2>1. q = operand(r, x) /\ x.kind \in Letters
    BY <1>2, <1>4, <1>6, <1>10
  <2>2. Readable(x)
    BY <1>1, <1>7, <2>1 DEF Readable, Legible
  <2> QED BY <1>8, <2>1, <2>2, LetterParses
<1> QED BY <1>9, <1>10

(* Before the first token.                                                  *)
LEMMA FreshParses ==
  ASSUME NEW ts, NEW t, RegexpAssumption
  PROVE  Proceeds(Fresh, ts, t, 0) /\ Fresh.err = "none" /\ Fresh \in Parsers
<1> DEFINE z == [i \in Nat |-> 0]
           V == [i \in Nat |-> {}]
<1>1. Fresh \in Parsers
  <2>1. /\ <<>> \in Seq(Good) /\ <<>> \in Seq(Parts)
    OBVIOUS
  <2>2. <<[op |-> "sentinel", subid |-> 0]>> \in Seq(Ators)
    <3> DEFINE a == [op |-> "sentinel", subid |-> 0]
    <3>1. a \in Ators
      BY DEF Ators
    <3> HIDE DEF a
    <3>2. <<a>> \in Seq(Ators)
      BY <3>1
    <3> QED BY <3>2 DEF a
  <2>3. 0 \in 0 .. NSubexp - 1
    BY DEF RegexpAssumption
  <2> QED BY <2>1, <2>2, <2>3 DEF Fresh, Parsers, Errors
<1>2. /\ Len(Fresh.ators) = 1 /\ Fresh.ators[1].op = "sentinel" /\ Fresh.ands = <<>>
      /\ Fresh.prog = <<>> /\ Len(Fresh.ands) = 0 /\ Len(Fresh.prog) = 0 /\ Fresh.err = "none"
      /\ Fresh.lastwasand = FALSE /\ Fresh.nbra = 0
  BY DEF Fresh
<1>3. z \in [Nat -> Nat] /\ \A i \in Nat : z[i] = 0
  OBVIOUS
<1>4. V \in [Nat -> Spans(t)]
  BY DEF Spans
<1> HIDE DEF z, V
<1>5. \A ops : Counts(Fresh.ators, z, ops)
  BY <1>2, <1>3 DEF Counts
<1>6. Stacked(Fresh, z, z)
  BY <1>1, <1>2, <1>5 DEF Stacked
<1>7. LaidOut(Fresh.prog, Fresh.ands, t, z, V)
  <2>1. Fresh.prog \in Seq(Good) /\ Fresh.ands \in Seq(Parts)
    BY <1>1 DEF Parsers
  <2> QED BY <2>1, <1>2, <1>3, <1>4 DEF LaidOut
<1>8. Structured(Fresh.ators, z, V, ts, t, z, Len(Fresh.ators))
  BY <1>2, <1>3 DEF Structured, Unary
<1>9. Want(Fresh, z, ts, t, 0)
  BY <1>2, <1>3, <1>7, <1>8 DEF Want
<1> QED BY <1>1, <1>2, <1>3, <1>6, <1>9 DEF Proceeds, Parsed, Consumed, Wanting

-----------------------------------------------------------------------------
(* The whole program                                                       *)

(* A NOP leads on to a later instruction.                                   *)
Chained(prog) ==
    /\ prog \in Seq(Instructions)
    /\ \A p \in 1 .. Len(prog) :
          prog[p].type = "nop" => prog[p].next \in 1 .. Len(prog) /\ p < prog[p].next

Step(prog, j) == IF prog[j].type = "nop" THEN prog[j].next ELSE j
Passing(prog, q, g) ==
    /\ g \in [0 .. Len(prog) -> 1 .. Len(prog)] /\ g[0] = q
    /\ \A i \in 1 .. Len(prog) : g[i] = Step(prog, g[i - 1])
Passed(prog, g, q) ==
    /\ q = g[Len(prog)] /\ q \in 1 .. Len(prog) /\ prog[q].type # "nop"
    /\ \A i \in 0 .. Len(prog) : prog[g[i]].type # "nop" => q = g[i]

LEMMA PassingExists ==
  ASSUME NEW prog, Chained(prog), NEW q \in 1 .. Len(prog)
  PROVE  \E g : Passing(prog, q, g) /\ PastNops(prog, q) = g[Len(prog)]
<1> DEFINE N == Len(prog)
           V == 1 .. N
           F == [i \in 1 .. N |-> [j \in V |-> Step(prog, j)]]
           Is(f) == f = [n \in 0 .. N |->
                           IF n = 0 THEN q
                           ELSE LET j == f[n - 1]
                                IN  IF j # 0 /\ prog[j].type = "nop" THEN prog[j].next ELSE j]
           past == CHOOSE f : Is(f)
<1>1. N \in Nat /\ q \in V
  BY LenProperties DEF Chained
<1>2. PastNops(prog, q) = past[N]
  BY DEF PastNops
<1>3. \A j \in V : Step(prog, j) \in V /\ j # 0
  BY DEF Chained, Step
<1> HIDE DEF N, V
<1>4. \A i \in 1 .. N : F[i] \in [V -> V] /\ \A j \in V : F[i][j] = Step(prog, j)
  BY <1>3
<1> HIDE DEF F
<1>5. PICK g \in [0 .. N -> V] : ByRecursion(g, F, q, N)
  BY <1>1, <1>4, RecursionExists
<1>6. g[0] = q /\ \A i \in 1 .. N : g[i - 1] \in V /\ g[i] = Step(prog, g[i - 1])
  <2>1. ASSUME NEW i \in 1 .. N PROVE g[i - 1] \in V /\ g[i] = Step(prog, g[i - 1])
    <3>1. i - 1 \in 0 .. N
      BY <1>1
    <3>2. g[i - 1] \in V /\ g[i] = F[i][g[i - 1]]
      BY <1>5, <3>1 DEF ByRecursion
    <3> QED BY <1>4, <3>2
  <2>2. g[0] = q
    BY <1>5 DEF ByRecursion
  <2> QED BY <2>1, <2>2
<1>7. Is(g)
  <2>1. \A n \in 0 .. N : g[n] = IF n = 0 THEN q
                                 ELSE LET j == g[n - 1]
                                      IN  IF j # 0 /\ prog[j].type = "nop"
                                          THEN prog[j].next ELSE j
    <3>1. ASSUME NEW n \in 0 .. N, n # 0
          PROVE  g[n] = LET j == g[n - 1]
                        IN  IF j # 0 /\ prog[j].type = "nop" THEN prog[j].next ELSE j
      <4>1. n \in 1 .. N
        BY <1>1, <3>1
      <4>2. g[n - 1] \in V /\ g[n] = Step(prog, g[n - 1])
        BY <1>6, <4>1
      <4>3. g[n - 1] # 0
        BY <1>3, <4>2
      <4> QED BY <4>2, <4>3 DEF Step
    <3> QED BY <1>6, <3>1
  <2>2. DOMAIN g = 0 .. N
    BY <1>5
  <2> QED BY <2>1, <2>2, <1>5
<1>8. Is(past)
  BY <1>7
<1> HIDE DEF past
<1>9. past[0] = q /\ \A i \in 1 .. N : past[i] = IF past[i - 1] # 0 /\ prog[past[i - 1]].type = "nop"
                                               THEN prog[past[i - 1]].next ELSE past[i - 1]
  BY <1>1, <1>8
<1> DEFINE P == {i \in 0 .. N : past[i] = g[i]}
<1>10. P = 0 .. N
  <2>1. 0 \in P
    BY <1>1, <1>6, <1>9
  <2>2. \A i \in 1 .. N : i - 1 \in P => i \in P
    BY <1>1, <1>3, <1>6, <1>9 DEF Step
  <2> HIDE DEF P
  <2> QED BY <1>1, <2>1, <2>2, UpTo DEF P
<1>11. past[N] = g[N]
  BY <1>1, <1>10
<1> QED BY <1>2, <1>5, <1>6, <1>11 DEF Passing, N, V

(* What is found behind the NOPs is not one: each step goes further, and     *)
(* there are no more steps than instructions.                              *)
LEMMA NopsArePassed ==
  ASSUME NEW prog, Chained(prog), NEW q \in 1 .. Len(prog), NEW g, Passing(prog, q, g)
  PROVE  Passed(prog, g, g[Len(prog)])
<1> DEFINE N == Len(prog)
<1>1. N \in Nat /\ N = Len(prog)
  BY LenProperties DEF Chained
<1>2. /\ g \in [0 .. N -> 1 .. N] /\ g[0] = q
      /\ \A i \in 1 .. N : g[i] = Step(prog, g[i - 1]) /\ g[i - 1] \in 1 .. N
  <2>1. /\ g \in [0 .. N -> 1 .. N] /\ g[0] = q
        /\ \A i \in 1 .. N : g[i] = Step(prog, g[i - 1])
    BY DEF Passing
  <2> HIDE DEF N
  <2>2. \A i \in 1 .. N : i - 1 \in 0 .. N
    BY <1>1
  <2> QED BY <2>1, <2>2
<1>3. \A p \in 1 .. N : prog[p].type = "nop" => prog[p].next \in 1 .. N /\ p < prog[p].next
  BY DEF Chained
<1> HIDE DEF N
<1> DEFINE P == {i \in 0 .. N : prog[g[i]].type = "nop" => g[i] >= i + 1}
<1>4. P = 0 .. N
  <2>1. 0 \in P
    BY <1>1, <1>2
  <2>2. ASSUME NEW i \in 1 .. N, i - 1 \in P PROVE i \in P
    <3> DEFINE a == g[i - 1]
               b == g[i]
    <3>1. a \in 1 .. N /\ b = Step(prog, a) /\ i \in 0 .. N
      BY <1>1, <1>2
    <3>2. prog[a].type = "nop" => a >= (i - 1) + 1
      BY <2>2
    <3> HIDE DEF a, b
    <3>3. CASE prog[a].type = "nop"
      <4>1. b = prog[a].next /\ b \in 1 .. N /\ a < b
        BY <1>3, <3>1, <3>3 DEF Step
      <4>2. b >= i + 1
        BY <1>1, <3>1, <3>2, <3>3, <4>1
      <4> QED BY <3>1, <4>2 DEF b
    <3>4. CASE prog[a].type # "nop"
      <4>1. b = a
        BY <3>1, <3>4 DEF Step
      <4> QED BY <3>1, <3>4, <4>1 DEF b
    <3> QED BY <3>3, <3>4
  <2> HIDE DEF P
  <2>3. \A i \in 1 .. N : i - 1 \in P => i \in P
    BY <2>2
  <2> QED BY <1>1, <2>1, <2>3, UpTo DEF P
<1>5. N \in 0 .. N
  BY <1>1
<1>6. g[N] \in 1 .. N /\ prog[g[N]].type # "nop"
  BY <1>1, <1>2, <1>4, <1>5
<1>7. ASSUME NEW i \in 0 .. N, prog[g[i]].type # "nop"
      PROVE  g[N] = g[i]
  <2> DEFINE Q == {j \in 0 .. N : i <= j => g[j] = g[i]}
  <2>1. 0 \in Q
    BY <1>1, <1>7
  <2>2. ASSUME NEW j \in 1 .. N, j - 1 \in Q PROVE j \in Q
    <3>1. CASE i = j
      BY <1>1, <3>1
    <3>2. CASE i # j
      <4>1. i <= j => i <= j - 1
        BY <1>1, <3>2
      <4>2. i <= j - 1 => g[j - 1] = g[i]
        BY <2>2
      <4>3. i <= j - 1 => g[j] = g[i]
        BY <1>2, <1>7, <4>2 DEF Step
      <4> QED BY <1>1, <4>1, <4>3
    <3> QED BY <3>1, <3>2
  <2> HIDE DEF Q
  <2>3. \A j \in 1 .. N : j - 1 \in Q => j \in Q
    BY <2>2
  <2>4. Q = 0 .. N
    BY <1>1, <2>1, <2>3, UpTo DEF Q
  <2> QED BY <1>1, <1>5, <2>4 DEF Q
<1> QED BY <1>1, <1>6, <1>7 DEF Passed

LEMMA NopsLead ==
  ASSUME NEW prog, Chained(prog), NEW q \in 1 .. Len(prog), NEW g, Passing(prog, q, g),
         NEW t, NEW c \in Places(t)
  PROVE  \A n \in 0 .. Len(prog) : Leads(Edges(prog, t), Places(t), <<q, c>>, <<g[n], c>>)
<1> DEFINE N == Len(prog)
           E == Edges(prog, t)
           D == Places(t)
           P == {n \in 0 .. N : Leads(E, D, <<q, c>>, <<g[n], c>>)}
<1>1. N \in Nat /\ N = Len(prog) /\ prog \in Seq(Instructions) /\ DOMAIN prog = 1 .. N
  BY LenProperties DEF Chained
<1>2. g[0] = q /\ \A i \in 1 .. N : g[i] = Step(prog, g[i - 1])
  BY DEF Passing
<1>3. \A i \in 1 .. N : g[i - 1] \in 1 .. N
  <2>1. g \in [0 .. N -> 1 .. N]
    BY DEF Passing
  <2> HIDE DEF N
  <2>2. \A i \in 1 .. N : i - 1 \in 0 .. N
    BY <1>1
  <2> QED BY <2>1, <2>2
<1> HIDE DEF N, E, D
<1>4. 0 \in P
  <2>1. <<q, c>> \in Nodes(D)
    BY <1>1 DEF Nodes, N, D
  <2>2. Leads(E, D, <<q, c>>, <<q, c>>)
    BY <2>1, LeadsToItself
  <2> QED BY <1>1, <1>2, <2>2
<1>5. ASSUME NEW n \in 1 .. N, n - 1 \in P PROVE n \in P
  <2> DEFINE j == g[n - 1]
  <2>1. j \in DOMAIN prog /\ g[n] = Step(prog, j) /\ Leads(E, D, <<q, c>>, <<j, c>>) /\ n \in 0 .. N
    BY <1>1, <1>2, <1>3, <1>5
  <2> HIDE DEF j
  <2>2. CASE prog[j].type = "nop"
    <3>1. g[n] = prog[j].next
      BY <2>1, <2>2 DEF Step
    <3>2. <<<<j, c>>, <<g[n], c>>>> \in E
      BY <1>1, <2>1, <2>2, <3>1, SilentEdges DEF E, Silent
    <3>3. Leads(E, D, <<q, c>>, <<g[n], c>>)
      BY <2>1, <3>2, LeadsOn
    <3> QED BY <2>1, <3>3
  <2>3. CASE prog[j].type # "nop"
    <3>1. g[n] = j
      BY <2>1, <2>3 DEF Step
    <3> QED BY <2>1, <3>1
  <2> QED BY <2>2, <2>3
<1>6. P \in SUBSET (0 .. N)
  OBVIOUS
<1> HIDE DEF P
<1>7. P = 0 .. N
  BY <1>1, <1>4, <1>5, <1>6, UpTo
<1> QED BY <1>7 DEF P, N, E, D

(* A program with its END: every instruction but that one has a successor.   *)
Ended(prog, i) ==
    /\ Chained(prog) /\ i = Len(prog) /\ i \in Nat \ {0}
    /\ \A p \in 1 .. i :
          /\ prog[p].type = "end" <=> p = i
          /\ p # i => prog[p].next \in 1 .. i
          /\ prog[p].type = "or" => prog[p].right \in 1 .. i /\ prog[prog[p].right].type # "nop"

Optimized(prog, o, i) ==
    /\ o \in Seq(Instructions) /\ Len(o) = i
    /\ \A p \in 1 .. i :
          /\ o[p].type = prog[p].type /\ o[p].spans = prog[p].spans
          /\ o[p].subid = prog[p].subid /\ o[p].right = prog[p].right
          /\ p = i => o[p].next = prog[p].next
          /\ p # i => o[p].next = PastNops(prog, prog[p].next)

LEMMA PastIs ==
  ASSUME NEW prog, Chained(prog), NEW q \in 1 .. Len(prog)
  PROVE  /\ PastNops(prog, q) \in 1 .. Len(prog) /\ prog[PastNops(prog, q)].type # "nop"
         /\ prog[q].type # "nop" => PastNops(prog, q) = q
<1>1. PICK g : Passing(prog, q, g) /\ PastNops(prog, q) = g[Len(prog)]
  BY PassingExists
<1>2. Passed(prog, g, PastNops(prog, q))
  BY <1>1, NopsArePassed
<1>3. 0 \in 0 .. Len(prog) /\ g[0] = q
  BY <1>1, LenProperties DEF Passing, Chained
<1> QED BY <1>2, <1>3 DEF Passed

LEMMA OptimizedIs ==
  ASSUME NEW prog, NEW i, Ended(prog, i), NEW o, o = optimize(prog)
  PROVE  Optimized(prog, o, i)
<1>1. /\ prog \in Seq(Instructions) /\ i = Len(prog) /\ DOMAIN prog = 1 .. i /\ i \in Nat
      /\ \A p \in 1 .. i : prog[p] \in Instructions
  BY DEF Ended, Chained
<1>2. o = [p \in 1 .. i |-> IF prog[p].type = "end" THEN prog[p]
                            ELSE [prog[p] EXCEPT !.next = PastNops(prog, @)]]
  BY <1>1 DEF optimize
<1>3. ASSUME NEW p \in 1 .. i
      PROVE  /\ o[p] \in Instructions
             /\ o[p].type = prog[p].type /\ o[p].spans = prog[p].spans
             /\ o[p].subid = prog[p].subid /\ o[p].right = prog[p].right
             /\ p = i => o[p].next = prog[p].next
             /\ p # i => o[p].next = PastNops(prog, prog[p].next)
  <2>1. CASE p = i
    <3>1. o[p] = prog[p]
      BY <1>2, <2>1 DEF Ended
    <3> QED BY <1>1, <2>1, <3>1
  <2>2. CASE p # i
    <3> DEFINE n == PastNops(prog, prog[p].next)
    <3>1. prog[p].type # "end" /\ prog[p].next \in 1 .. i
      BY <2>2 DEF Ended
    <3>2. n \in 1 .. i
      BY <1>1, <3>1, PastIs DEF Ended
    <3>3. o[p] = [prog[p] EXCEPT !.next = n]
      BY <1>2, <3>1
    <3> HIDE DEF n
    <3>4. prog[p] \in Instructions /\ n \in Nat
      BY <1>1, <3>2
    <3>5. /\ o[p] \in Instructions
          /\ o[p].type = prog[p].type /\ o[p].spans = prog[p].spans
          /\ o[p].subid = prog[p].subid /\ o[p].right = prog[p].right /\ o[p].next = n
      BY <3>3, <3>4 DEF Instructions
    <3> QED BY <2>2, <3>5 DEF n
  <2> QED BY <2>1, <2>2
<1>4. o \in Seq(Instructions) /\ Len(o) = i
  <2>1. o \in [1 .. i -> Instructions]
    BY <1>2, <1>3
  <2> QED BY <1>1, <2>1
<1> QED BY <1>3, <1>4 DEF Optimized

(* Where the optimized program leads the other one leads as well.           *)
LEMMA OptimizedLeadsBack ==
  ASSUME NEW prog, NEW i, Ended(prog, i), NEW o, Optimized(prog, o, i), NEW t \in Seq(Nat),
         NEW p \in 1 .. i, NEW a \in Places(t), NEW b \in Places(t),
         Leads(Edges(o, t), Places(t), <<p, a>>, <<i, b>>)
  PROVE  Leads(Edges(prog, t), Places(t), <<p, a>>, <<i, b>>)
<1> DEFINE E == Edges(prog, t)
           E2 == Edges(o, t)
           D == Places(t)
           S == {x \in Nodes(D) : Leads(E, D, <<p, a>>, x)}
<1>1. /\ i \in Nat /\ Chained(prog) /\ Len(prog) = i /\ prog \in Seq(Instructions)
      /\ DOMAIN prog = 1 .. i /\ o \in Seq(Instructions) /\ DOMAIN o = 1 .. i
  BY DEF Ended, Chained, Optimized
<1>2. a \in D /\ b \in D /\ Leads(E2, D, <<p, a>>, <<i, b>>)
      /\ E2 \in SUBSET (Nodes(D) \X Nodes(D))
  BY EdgesAreEdges
<1>3. <<p, a>> \in Nodes(D)
  BY <1>1, <1>2 DEF Nodes
<1>4. ASSUME NEW q \in Nat, NEW r \in Nat, NEW d \in D, NEW e \in D,
             <<<<q, d>>, <<r, e>>>> \in E2, <<q, d>> \in S
      PROVE  <<r, e>> \in S
  <2>1. Edge(o, t, q, d, r, e)
    BY <1>4, EdgesAre DEF E2, D
  <2>2. q \in 1 .. i /\ Moves(o[q], t, d, e) /\ (r = o[q].next \/ (o[q].type = "or" /\ r = o[q].right))
    BY <2>1, <1>1 DEF Edge
  <2>3. /\ o[q].type = prog[q].type /\ o[q].spans = prog[q].spans /\ o[q].right = prog[q].right
        /\ q # i => o[q].next = PastNops(prog, prog[q].next)
    BY <2>2 DEF Optimized
  <2>4. Moves(prog[q], t, d, e)
    BY <2>2, <2>3, MovesAlike
  <2>5. q # i
    <3>1. prog[q].type = "end" => ~ Moves(prog[q], t, d, e)
      BY DEF Moves
    <3> QED BY <2>2, <2>4, <3>1 DEF Ended
  <2>6. Leads(E, D, <<p, a>>, <<q, d>>)
    BY <1>4
  <2>7. <<r, e>> \in Nodes(D)
    BY DEF Nodes
  <2>8. CASE o[q].type = "or" /\ r = o[q].right
    <3>1. Edge(prog, t, q, d, r, e)
      BY <2>2, <2>3, <2>4, <2>8, <1>1 DEF Edge
    <3>2. <<<<q, d>>, <<r, e>>>> \in E
      BY <3>1, EdgesAre DEF E, D
    <3>3. Leads(E, D, <<p, a>>, <<r, e>>)
      BY <2>6, <3>2, LeadsOn
    <3> QED BY <3>3, <2>7
  <2>9. CASE r = o[q].next
    <3> DEFINE n == prog[q].next
    <3>1. n \in 1 .. i /\ n \in Nat /\ r = PastNops(prog, n)
      BY <1>1, <2>2, <2>3, <2>5, <2>9 DEF Ended
    <3>2. Edge(prog, t, q, d, n, e)
      BY <2>2, <2>4, <1>1 DEF Edge
    <3> HIDE DEF n
    <3>3. <<<<q, d>>, <<n, e>>>> \in E
      BY <3>1, <3>2, EdgesAre DEF E, D
    <3>4. Leads(E, D, <<p, a>>, <<n, e>>)
      BY <2>6, <3>3, LeadsOn
    <3>5. PICK g : Passing(prog, n, g) /\ PastNops(prog, n) = g[Len(prog)]
      BY <1>1, <3>1, PassingExists
    <3>6. Len(prog) \in 0 .. Len(prog)
      BY <1>1
    <3>7. Leads(E, D, <<n, e>>, <<r, e>>)
      BY <1>1, <3>1, <3>5, <3>6, NopsLead DEF E, D
    <3>8. Leads(E, D, <<p, a>>, <<r, e>>)
      BY <3>4, <3>7, LeadsFurther
    <3> QED BY <3>8, <2>7
  <2> QED BY <2>2, <2>8, <2>9
<1>5. <<p, a>> \in S
  <2>1. Leads(E, D, <<p, a>>, <<p, a>>)
    BY <1>3, LeadsToItself
  <2> QED BY <1>3, <2>1
<1>6. S \in SUBSET Nodes(D)
  OBVIOUS
<1> HIDE DEF S, E, E2, D
<1>7. <<i, b>> \in S
  BY <1>2, <1>4, <1>5, <1>6, LeadsIn
<1> QED BY <1>7 DEF S, E, D

(* Where the program is, the optimized one is past the NOPs.                *)
Overtakes(prog, E, D, x, q, c, m, g, n) ==
    /\ m \in 1 .. Len(prog) /\ n \in 0 .. Len(prog)
    /\ Passing(prog, m, g) /\ q = g[n]
    /\ Leads(E, D, x, <<g[Len(prog)], c>>)
Ahead(prog, E, D, x, q, c) == \E m, g, n : Overtakes(prog, E, D, x, q, c, m, g, n)

LEMMA AheadAtOnce ==
  ASSUME NEW prog, Chained(prog), NEW E, NEW D, NEW x, NEW q \in 1 .. Len(prog), NEW c,
         Leads(E, D, x, <<PastNops(prog, q), c>>)
  PROVE  Ahead(prog, E, D, x, q, c)
<1>1. PICK g : Passing(prog, q, g) /\ PastNops(prog, q) = g[Len(prog)]
  BY PassingExists
<1>2. 0 \in 0 .. Len(prog) /\ q = g[0]
  BY <1>1, LenProperties DEF Passing, Chained
<1>3. Leads(E, D, x, <<g[Len(prog)], c>>)
  BY <1>1
<1>4. Overtakes(prog, E, D, x, q, c, q, g, 0)
  BY <1>1, <1>2, <1>3 DEF Overtakes
<1> QED BY <1>4 DEF Ahead

LEMMA AheadOfNop ==
  ASSUME NEW prog, Chained(prog), NEW E, NEW D, NEW x, NEW q, NEW c, Ahead(prog, E, D, x, q, c)
  PROVE  IF prog[q].type = "nop" THEN Ahead(prog, E, D, x, prog[q].next, c)
         ELSE Leads(E, D, x, <<q, c>>)
<1> DEFINE N == Len(prog)
<1>1. N \in Nat /\ N = Len(prog)
  BY LenProperties DEF Chained
<1> HIDE DEF N
<1>2. PICK m, g, n : /\ m \in 1 .. N /\ n \in 0 .. N /\ Passing(prog, m, g) /\ q = g[n]
                    /\ Leads(E, D, x, <<g[N], c>>)
  BY <1>1 DEF Ahead, Overtakes
<1>3. Passed(prog, g, g[N])
  BY <1>1, <1>2, NopsArePassed
<1>4. prog[g[N]].type # "nop" /\ (prog[q].type # "nop" => g[N] = q)
  BY <1>1, <1>2, <1>3 DEF Passed
<1>5. CASE prog[q].type = "nop"
  <2>1. n # N
    BY <1>2, <1>4, <1>5
  <2> DEFINE k == n + 1
  <2>2. k \in 1 .. N /\ k - 1 = n /\ k \in 0 .. N
    BY <1>1, <1>2, <2>1
  <2> HIDE DEF k
  <2>3. g[k] = prog[q].next
    BY <1>1, <1>2, <1>5, <2>2 DEF Passing, Step
  <2>4. Overtakes(prog, E, D, x, prog[q].next, c, m, g, k)
    BY <1>1, <1>2, <2>2, <2>3 DEF Overtakes
  <2> QED BY <1>5, <2>4 DEF Ahead
<1> QED BY <1>2, <1>4, <1>5

LEMMA OptimizedLeads ==
  ASSUME NEW prog, NEW i, Ended(prog, i), NEW o, Optimized(prog, o, i), NEW t \in Seq(Nat),
         NEW p \in 1 .. i, prog[p].type # "nop", NEW a \in Places(t), NEW b \in Places(t),
         Leads(Edges(prog, t), Places(t), <<p, a>>, <<i, b>>)
  PROVE  Leads(Edges(o, t), Places(t), <<p, a>>, <<i, b>>)
<1> DEFINE E == Edges(prog, t)
           E2 == Edges(o, t)
           D == Places(t)
           x == <<p, a>>
           S == {y \in Nodes(D) : Ahead(prog, E2, D, x, y[1], y[2])}
<1>1. /\ i \in Nat /\ Chained(prog) /\ Len(prog) = i /\ prog \in Seq(Instructions)
      /\ DOMAIN prog = 1 .. i /\ o \in Seq(Instructions) /\ DOMAIN o = 1 .. i
  BY DEF Ended, Chained, Optimized
<1>2. a \in D /\ b \in D /\ Leads(E, D, x, <<i, b>>) /\ E \in SUBSET (Nodes(D) \X Nodes(D))
  BY EdgesAreEdges
<1>3. x \in Nodes(D)
  BY <1>1, <1>2 DEF Nodes
<1>4. ASSUME NEW q \in Nat, NEW r \in Nat, NEW d \in D, NEW e \in D,
             <<<<q, d>>, <<r, e>>>> \in E, <<q, d>> \in S
      PROVE  <<r, e>> \in S
  <2>1. Edge(prog, t, q, d, r, e)
    BY <1>4, EdgesAre DEF E, D
  <2>2. /\ q \in 1 .. i /\ Moves(prog[q], t, d, e)
        /\ (r = prog[q].next \/ (prog[q].type = "or" /\ r = prog[q].right))
    BY <2>1, <1>1 DEF Edge
  <2>3. q # i
    <3>1. prog[q].type = "end" => ~ Moves(prog[q], t, d, e)
      BY DEF Moves
    <3> QED BY <2>2, <3>1 DEF Ended
  <2>4. Ahead(prog, E2, D, x, q, d)
    BY <1>4
  <2>5. <<r, e>> \in Nodes(D)
    BY DEF Nodes
  <2>6. CASE prog[q].type = "nop"
    <3>1. r = prog[q].next /\ e = d
      BY <2>2, <2>6 DEF Moves
    <3>2. Ahead(prog, E2, D, x, r, e)
      BY <1>1, <2>4, <2>6, <3>1, AheadOfNop
    <3> QED BY <2>5, <3>2
  <2>7. CASE prog[q].type # "nop"
    <3>1. Leads(E2, D, x, <<q, d>>)
      BY <1>1, <2>4, <2>7, AheadOfNop
    <3>2. /\ o[q].type = prog[q].type /\ o[q].spans = prog[q].spans /\ o[q].right = prog[q].right
          /\ o[q].next = PastNops(prog, prog[q].next)
      BY <2>2, <2>3 DEF Optimized
    <3>3. Moves(o[q], t, d, e)
      BY <2>2, <3>2, MovesAlike
    <3> DEFINE f == PastNops(prog, r)
    <3>4. r \in 1 .. i /\ (r = prog[q].next \/ (prog[q].type = "or" /\ prog[r].type # "nop"))
      BY <2>2, <2>3 DEF Ended
    <3>5. f \in 1 .. i /\ f \in Nat /\ (prog[r].type # "nop" => f = r)
      BY <1>1, <3>4, PastIs
    <3>6. f = o[q].next \/ (o[q].type = "or" /\ f = o[q].right)
      BY <2>2, <3>2, <3>4, <3>5
    <3>7. f = PastNops(prog, r)
      OBVIOUS
    <3> HIDE DEF f
    <3>8. Edge(o, t, q, d, f, e)
      BY <1>1, <2>2, <3>3, <3>6 DEF Edge
    <3>9. <<<<q, d>>, <<f, e>>>> \in E2
      BY <3>5, <3>8, EdgesAre DEF E2, D
    <3>10. Leads(E2, D, x, <<f, e>>)
      BY <3>1, <3>9, LeadsOn
    <3>11. Ahead(prog, E2, D, x, r, e)
      BY <1>1, <3>4, <3>7, <3>10, AheadAtOnce
    <3> QED BY <2>5, <3>11
  <2> QED BY <2>6, <2>7
<1>5. x \in S
  <2>1. PastNops(prog, p) = p
    BY <1>1, PastIs
  <2>2. Leads(E2, D, x, <<PastNops(prog, p), a>>)
    BY <2>1, <1>3, LeadsToItself
  <2>3. Ahead(prog, E2, D, x, p, a)
    BY <1>1, <2>2, AheadAtOnce
  <2> QED BY <1>3, <2>3
<1>6. S \in SUBSET Nodes(D)
  OBVIOUS
<1> HIDE DEF S, E, E2, D, x
<1>7. <<i, b>> \in S
  BY <1>2, <1>4, <1>5, <1>6, LeadsIn
<1>8. Ahead(prog, E2, D, x, i, b)
  BY <1>7 DEF S
<1>9. prog[i].type # "nop"
  BY DEF Ended
<1>10. Leads(E2, D, x, <<i, b>>)
  BY <1>1, <1>8, <1>9, AheadOfNop
<1> QED BY <1>10 DEF E2, D, x

(* The operand that is left is linked to END.                               *)
EndInst == Inst("end", <<>>, 0, 0, 0)
EndLinked(prog, new, x, i) ==
    /\ new \in Seq(Good) /\ i = Len(prog) + 1 /\ Len(new) = i /\ new[i] = EndInst
    /\ Grows(prog, new, 1 .. Len(prog), i)

LEMMA EndIsReached ==
  ASSUME NEW prog, NEW x, LastOperand(prog, 1, x), NEW new, NEW i, EndLinked(prog, new, x, i),
         NEW t \in Seq(Nat), NEW a \in Places(t), NEW b \in Places(t)
  PROVE  Leads(Edges(new, t), Places(t), <<x.first, a>>, <<i, b>>) <=> <<a, b>> \in Through(prog, t, x)
<1> DEFINE E == Edges(prog, t)
           E2 == Edges(new, t)
           D == Places(t)
           K == 1 .. Len(prog)
           p == x.first
<1>1. /\ prog \in Seq(Instructions) /\ new \in Seq(Instructions) /\ Len(prog) \in Nat
      /\ DOMAIN prog = K /\ DOMAIN new = 1 .. i /\ i \in Nat /\ i = Len(prog) + 1
      /\ Fragment(prog, 1, Len(prog), x) /\ Grows(prog, new, K, i) /\ new[i] = EndInst
  BY GoodIsInstruction DEF LastOperand, EndLinked
<1>2. p \in K /\ \A q \in K : /\ prog[q].next \in K \cup {0}
                              /\ prog[q].type = "or" => prog[q].right \in K
  BY <1>1 DEF Fragment, Inner
<1>3. a \in D /\ b \in D /\ (<<a, b>> \in Through(prog, t, x) <=> Leads(E, D, <<p, a>>, <<0, b>>))
  BY ThroughIs
<1>4. E \in SUBSET (Nodes(D) \X Nodes(D)) /\ E2 \in SUBSET (Nodes(D) \X Nodes(D))
  BY EdgesAreEdges
<1>5. K \in SUBSET (Nat \ {0}) /\ i \in Nat \ K /\ K \in SUBSET (DOMAIN prog) /\ K \subseteq DOMAIN new
  BY <1>1
<1> HIDE DEF K, p
<1>6. Linked(E, E2, D, K, i) /\ Enclosed(E, D, K)
  BY <1>1, <1>2, <1>5, LinkedEdges
<1>7. Stops(E, D)
  BY <1>1, NoInstructionZero
<1> HIDE DEF E, E2, D
<1>8. Leads(E, D, <<p, a>>, <<0, b>>) => Leads(E2, D, <<p, a>>, <<i, b>>)
  BY <1>2, <1>3, <1>4, <1>5, <1>6, <1>7, LinkedEntry
<1>9. ASSUME Leads(E2, D, <<p, a>>, <<i, b>>)
      PROVE  Leads(E, D, <<p, a>>, <<0, b>>)
  <2>1. i \in Nat /\ i \notin K
    BY <1>5
  <2>2. PICK f \in D : Leads(E, D, <<p, a>>, <<0, f>>) /\ Leads(E2, D, <<i, f>>, <<i, b>>)
    BY <1>2, <1>3, <1>4, <1>5, <1>6, <1>7, <1>9, <2>1, LinkedOut
  <2>3. f = b
    <3>1. SUFFICES ASSUME f # b PROVE FALSE
      OBVIOUS
    <3>2. <<i, f>> \in Nodes(D)
      BY <2>1 DEF Nodes
    <3>3. PICK z : <<<<i, f>>, z>> \in E2
      BY <1>4, <2>2, <3>1, <3>2, LeadsFirst
    <3>4. PICK q \in Nat, e \in D : z = <<q, e>>
      BY <1>4, <3>3 DEF Nodes
    <3>5. Edge(new, t, i, f, q, e)
      BY <2>1, <3>3, <3>4, EdgesAre DEF E2, D
    <3>6. new[i].type = "end"
      BY <1>1 DEF EndInst, Inst
    <3> QED BY <3>5, <3>6 DEF Edge, Moves
  <2> QED BY <2>2, <2>3
<1> QED BY <1>3, <1>8, <1>9 DEF E2, D, p

(* The program that is left to the machine.                                 *)
Program(r, new, i, start) ==
    /\ Ended(new, i) /\ new \in Seq(Good)
    /\ start \in 1 .. i /\ new[start].type # "nop"
    /\ r.prog = optimize(new) /\ r.start = start

LEMMA ProgramRuns ==
  ASSUME NEW r, NEW new, NEW i, NEW start, Program(r, new, i, start)
  PROVE  Runnable(r)
<1> DEFINE o == r.prog
<1>1. Optimized(new, o, i)
  BY OptimizedIs DEF Program
<1> HIDE DEF o
<1>2. /\ i \in Nat /\ Chained(new) /\ Len(new) = i /\ new \in Seq(Good)
      /\ DOMAIN new = 1 .. i /\ o \in Seq(Instructions) /\ DOMAIN o = 1 .. i
  BY <1>1 DEF Program, Ended, Optimized
<1>3. \A p \in 1 .. i : /\ o[p].type = new[p].type /\ o[p].spans = new[p].spans
                        /\ o[p].subid = new[p].subid /\ o[p].right = new[p].right
                        /\ p # i => o[p].next = PastNops(new, new[p].next)
  BY <1>1 DEF Optimized
<1>4. \A p : p \in Live(r) <=> p \in 1 .. i /\ new[p].type # "nop"
  BY <1>2, <1>3 DEF Live, o
<1>5. r.start \in Live(r)
  BY <1>4 DEF Program
<1>6. ASSUME NEW p \in Live(r)
      PROVE  /\ o[p].type # "end" => o[p].next \in Live(r)
             /\ o[p].type = "or" => o[p].right \in Live(r)
             /\ o[p].type \in {"(", ")"} => o[p].subid \in 1 .. NSubexp - 1
             /\ o[p].type = "rune" => \E x \in Nat : o[p].spans = <<<<x, x>>>>
  <2>1. p \in 1 .. i /\ new[p].type # "nop"
    BY <1>4
  <2>2. /\ o[p].type = new[p].type /\ o[p].spans = new[p].spans
        /\ o[p].subid = new[p].subid /\ o[p].right = new[p].right
    BY <1>3, <2>1
  <2>3. ASSUME o[p].type # "end"
        PROVE  o[p].next \in Live(r)
    <3>1. p # i /\ new[p].next \in 1 .. i
      BY <2>1, <2>2, <2>3 DEF Program, Ended
    <3>2. o[p].next = PastNops(new, new[p].next)
      BY <1>3, <2>1, <3>1
    <3>3. PastNops(new, new[p].next) \in 1 .. i /\ new[PastNops(new, new[p].next)].type # "nop"
      BY <1>2, <3>1, PastIs
    <3> QED BY <1>4, <3>2, <3>3
  <2>4. ASSUME o[p].type = "or"
        PROVE  o[p].right \in Live(r)
    <3>1. new[p].right \in 1 .. i /\ new[new[p].right].type # "nop"
      BY <2>1, <2>2, <2>4 DEF Program, Ended
    <3> QED BY <1>4, <2>2, <3>1
  <2>5. new[p] \in Good
    BY <1>2, <2>1, ElementOfSeq
  <2>6. /\ new[p].type \in {"(", ")"} => new[p].subid \in 1 .. NSubexp - 1
        /\ new[p].type = "rune" => \E x \in Nat : new[p].spans = <<<<x, x>>>>
    BY <2>5 DEF Good
  <2> QED BY <2>2, <2>3, <2>4, <2>6
<1> QED BY <1>2, <1>5, <1>6 DEF Runnable, o

LEMMA ProgramAccepts ==
  ASSUME NEW r, NEW new, NEW i, NEW start, Program(r, new, i, start),
         NEW t \in Seq(Nat), NEW a \in Places(t), NEW b \in Places(t)
  PROVE  <<a, b>> \in Accepted(r, t) <=>
         Leads(Edges(new, t), Places(t), <<start, a>>, <<i, b>>)
<1>1. Optimized(new, r.prog, i) /\ Ended(new, i)
  BY OptimizedIs DEF Program
<1>2. start \in 1 .. i /\ new[start].type # "nop" /\ r.start = start
  BY DEF Program
<1>3. Leads(Edges(new, t), Places(t), <<start, a>>, <<i, b>>) <=> Reaches(r, t, a, i, b)
  BY <1>1, <1>2, OptimizedLeads, OptimizedLeadsBack DEF Reaches
<1>4. \A p : p \in DOMAIN r.prog /\ r.prog[p].type = "end" <=> p = i
  <2>1. i \in Nat \ {0} /\ DOMAIN r.prog = 1 .. i
    BY <1>1 DEF Optimized, Ended
  <2>2. \A p \in 1 .. i : r.prog[p].type = new[p].type /\ (new[p].type = "end" <=> p = i)
    BY <1>1 DEF Optimized, Ended
  <2> QED BY <2>1, <2>2
<1>5. Accepts(r, t, a, b) <=> Reaches(r, t, a, i, b)
  BY <1>4 DEF Accepts
<1>6. <<a, b>> \in Accepted(r, t) <=> Accepts(r, t, a, b)
  BY DEF Accepted
<1> QED BY <1>3, <1>5, <1>6

LEMMA EndLinkedEnds ==
  ASSUME NEW prog, NEW x, LastOperand(prog, 1, x), NEW new, NEW i, EndLinked(prog, new, x, i)
  PROVE  Ended(new, i) /\ x.first \in 1 .. i /\ new[x.first].type # "nop"
<1> DEFINE N == Len(prog)
<1>1. /\ prog \in Seq(Instructions) /\ new \in Seq(Instructions) /\ N \in Nat
      /\ DOMAIN prog = 1 .. N /\ Len(new) = i /\ i = N + 1
      /\ Fragment(prog, 1, N, x) /\ Grows(prog, new, 1 .. N, i)
  BY GoodIsInstruction DEF LastOperand, EndLinked
<1>2. new[i].type = "end"
  BY DEF EndLinked, EndInst, Inst
<1>3. /\ x.first \in 1 .. N /\ prog[x.first].type # "nop" /\ Inner(prog, 1, N, x.last)
  BY <1>1 DEF Fragment
<1> HIDE DEF N
<1>4. ASSUME NEW p \in 1 .. N
      PROVE  /\ new[p].type = prog[p].type /\ new[p].right = prog[p].right
             /\ new[p].next = IF prog[p].next = 0 THEN i ELSE prog[p].next
  <2> DEFINE K == 1 .. N
  <2>1. K \in SUBSET (DOMAIN prog) /\ i \in Nat /\ p \in K /\ Grows(prog, new, K, i)
    BY <1>1
  <2> HIDE DEF K
  <2> QED BY <1>1, <2>1, GrownInstruction
<1>5. ASSUME NEW p \in 1 .. N
      PROVE  /\ new[p].type # "end" /\ new[p].next \in 1 .. i
             /\ new[p].type = "nop" => p < new[p].next
             /\ new[p].type = "or" => new[p].right \in 1 .. i /\ new[new[p].right].type # "nop"
  <2>1. /\ prog[p].next \in (1 .. N) \cup {0}
        /\ prog[p].type = "or" => prog[p].right \in 1 .. N /\ prog[prog[p].right].type # "nop"
        /\ prog[p].type = "nop" => prog[p].next = 0 \/ p < prog[p].next
        /\ prog[p].type # "end"
    BY <1>3 DEF Inner
  <2>2. new[p].next \in 1 .. i /\ (prog[p].type = "nop" => p < new[p].next)
    BY <1>1, <1>4, <2>1
  <2>3. prog[p].type = "or" => new[p].right \in 1 .. i /\ new[new[p].right].type # "nop"
    BY <1>1, <1>4, <2>1
  <2> QED BY <1>4, <2>1, <2>2, <2>3
<1>6. \A p \in 1 .. i : p = i \/ p \in 1 .. N
  BY <1>1
<1>7. i \notin 1 .. N /\ i \in Nat \ {0}
  BY <1>1
<1>8. Chained(new)
  <2>1. ASSUME NEW p \in 1 .. Len(new), new[p].type = "nop"
        PROVE  new[p].next \in 1 .. Len(new) /\ p < new[p].next
    BY <1>1, <1>2, <1>5, <1>6, <2>1
  <2> QED BY <1>1, <2>1 DEF Chained
<1>9. \A p \in 1 .. i :
          /\ new[p].type = "end" <=> p = i
          /\ p # i => new[p].next \in 1 .. i
          /\ new[p].type = "or" => new[p].right \in 1 .. i /\ new[new[p].right].type # "nop"
  BY <1>2, <1>5, <1>6, <1>7
<1>10. Ended(new, i)
  BY <1>1, <1>7, <1>8, <1>9 DEF Ended
<1>11. x.first \in 1 .. i /\ new[x.first].type # "nop"
  BY <1>1, <1>3, <1>4
<1> QED BY <1>10, <1>11

(* What the program accepts is what its operand stands for.                 *)
LEMMA OperandProgram ==
  ASSUME NEW prog, NEW x, LastOperand(prog, 1, x), NEW new, NEW i, EndLinked(prog, new, x, i),
         NEW r, r.prog = optimize(new), r.start = x.first
  PROVE  /\ Runnable(r)
         /\ \A t \in Seq(Nat) : Accepted(r, t) = Through(prog, t, x)
<1>1. Program(r, new, i, x.first)
  BY EndLinkedEnds DEF Program, EndLinked
<1>2. ASSUME NEW t \in Seq(Nat)
      PROVE  Accepted(r, t) = Through(prog, t, x)
  <2>1. Alike(Places(t), Accepted(r, t), Through(prog, t, x))
    BY <1>1, ProgramAccepts, EndIsReached DEF Alike
  <2>2. /\ Accepted(r, t) \in SUBSET (Places(t) \X Places(t))
        /\ Through(prog, t, x) \in SUBSET (Places(t) \X Places(t))
    BY DEF Accepted, Through
  <2> QED BY <2>1, <2>2, SpansAreEqual
<1> QED BY <1>1, <1>2, ProgramRuns

(* The empty pattern.                                                       *)
LEMMA EmptyProgram ==
  ASSUME NEW r, r.prog = optimize(<<EndInst>>), r.start = 1
  PROVE  /\ Runnable(r)
         /\ \A t \in Seq(Nat) : Accepted(r, t) = Empties(t)
<1> DEFINE new == <<EndInst>>
<1>1. EndInst \in Good /\ EndInst.type = "end" /\ EndInst.next = 0
  BY DEF EndInst, Inst, Good, Instructions, Types
<1>2. new \in Seq(Good) /\ Len(new) = 1 /\ new[1] = EndInst
  BY <1>1
<1>3. new = <<EndInst>>
  OBVIOUS
<1> HIDE DEF new
<1>4. new \in Seq(Instructions)
  BY <1>2, GoodIsInstruction
<1>5. Chained(new)
  <2>1. \A p \in 1 .. Len(new) : new[p].type = "end"
    BY <1>1, <1>2
  <2> QED BY <1>4, <2>1 DEF Chained
<1>6. Ended(new, 1)
  <2>1. \A p \in 1 .. 1 : new[p].type = "end" /\ p = 1
    BY <1>1, <1>2
  <2>2. 1 = Len(new) /\ 1 \in Nat \ {0}
    BY <1>2
  <2> QED BY <1>5, <2>1, <2>2 DEF Ended
<1>7. Program(r, new, 1, 1)
  BY <1>1, <1>2, <1>3, <1>6 DEF Program
<1>8. ASSUME NEW t \in Seq(Nat)
      PROVE  Accepted(r, t) = Empties(t)
  <2>1. ASSUME NEW a \in Places(t), NEW b \in Places(t)
        PROVE  <<a, b>> \in Accepted(r, t) <=> a = b
    <3>1. <<a, b>> \in Accepted(r, t) <=> Leads(Edges(new, t), Places(t), <<1, a>>, <<1, b>>)
      BY <1>7, ProgramAccepts
    <3>2. <<1, a>> \in Nodes(Places(t))
      BY DEF Nodes
    <3>3. Leads(Edges(new, t), Places(t), <<1, a>>, <<1, a>>)
      BY <3>2, LeadsToItself
    <3>4. ASSUME Leads(Edges(new, t), Places(t), <<1, a>>, <<1, b>>), a # b
          PROVE  FALSE
      <4>1. PICK z : <<<<1, a>>, z>> \in Edges(new, t)
        BY <3>2, <3>4, LeadsFirst, EdgesAreEdges
      <4>2. Edge(new, t, 1, a, z[1], z[2])
        BY <4>1 DEF Edges
      <4> QED BY <4>2, <1>1, <1>2 DEF Edge, Moves
    <3> QED BY <3>1, <3>3, <3>4
  <2>2. Alike(Places(t), Accepted(r, t), Empties(t))
    BY <2>1, EmptySpans DEF Alike
  <2>3. /\ Accepted(r, t) \in SUBSET (Places(t) \X Places(t))
        /\ Empties(t) \in SUBSET (Places(t) \X Places(t))
    BY EmptySpans DEF Accepted
  <2> QED BY <2>2, <2>3, SpansAreEqual
<1> QED BY <1>7, <1>8, ProgramRuns

-----------------------------------------------------------------------------
(* The end of the pattern                                                  *)

(* The reductions leave the brackets that are open alone, even when they     *)
(* reduce a left bracket that is not closed.                               *)
Settled(p, q, nd, nb) == q \in Parsers /\ Else(p, q) /\ (q.err = "none" => Stacked(q, nd, nb))

LEMMA EvaluationSettles ==
  ASSUME NEW p, NEW nd, NEW nb, NEW pri \in Priorities \ {")"}, Stacked(p, nd, nb), p.err = "none",
         NEW q, q = evaluntil(p, pri)
  PROVE  Settled(p, q, nd, nb)
<1> DEFINE V == {s \in [parser : Parsers, over : BOOLEAN] : Settled(p, s.parser, nd, nb)}
           first == [parser |-> p, over |-> FALSE]
<1>1. first \in V
  <2>1. p \in Parsers /\ first.parser = p /\ first.over = FALSE
    BY DEF Stacked
  <2>2. Settled(p, p, nd, nb)
    BY <2>1 DEF Else, Settled
  <2> QED BY <2>1, <2>2
<1>2. Turned(V, pri)
  <2> SUFFICES ASSUME NEW s \in V
               PROVE  /\ Round(s, pri) \in V
                      /\ Len(s.parser.ators) \in Nat
                      /\ s.parser.err = "none" => Len(s.parser.ators) # 0
                      /\ \/ Round(s, pri).over \/ Round(s, pri).parser.err # "none"
                         \/ /\ ~ s.over /\ s.parser.err = "none"
                            /\ Len(Round(s, pri).parser.ators) = Len(s.parser.ators) - 1
                      /\ s.over \/ s.parser.err # "none" =>
                            Round(s, pri).over \/ Round(s, pri).parser.err # "none"
    BY DEF Turned
  <2> DEFINE r == s.parser
             z == Round(s, pri)
  <2>1. /\ s \in [parser : Parsers, over : BOOLEAN] /\ r \in Parsers /\ Len(r.ators) \in Nat
        /\ Settled(p, r, nd, nb)
    BY DEF Parsers
  <2> HIDE DEF V
  <2>2. Else(p, r) /\ (r.err = "none" => Stacked(r, nd, nb) /\ Len(r.ators) >= 1)
    BY <2>1 DEF Settled, Stacked
  <2> HIDE DEF r, z
  <2>3. CASE s.over \/ r.err # "none" \/ ~ Tight(r, pri)
    <3>1. z = [parser |-> r, over |-> TRUE]
      BY <2>1, <2>2, <2>3, RoundIs DEF r, z
    <3>2. z.parser = r /\ z.over = TRUE /\ z \in [parser : Parsers, over : BOOLEAN]
      BY <2>1, <3>1
    <3> QED BY <2>1, <2>2, <3>2 DEF V, z, r
  <2>4. CASE ~ s.over /\ r.err = "none" /\ Tight(r, pri)
    <3> DEFINE y == Reduce(r)
    <3>1. z = [parser |-> y, over |-> TopOp(r) = "("]
      BY <2>1, <2>2, <2>4, RoundIs DEF r, z
    <3>2. y = Reduce(r)
      OBVIOUS
    <3> HIDE DEF y
    <3>3. TopOp(r) # "sentinel"
      <4>1. Precedence(TopOp(r)) >= Precedence(pri)
        BY <2>4 DEF Tight
      <4> QED BY <4>1, Precedences DEF Priorities
    <3>4. y \in Parsers /\ Else(r, y)
      BY <2>1, <2>2, <2>4, <3>2, <3>3, ReduceIs
    <3>5. y.err = "none" => Stacked(y, nd, nb) /\ Balanced(r, y, nd, nb)
      BY <2>2, <2>4, <3>2, <3>3, ReduceCounts
    <3>6. Settled(p, y, nd, nb)
      BY <2>2, <3>4, <3>5 DEF Settled, Else
    <3>7. z.parser = y /\ z \in [parser : Parsers, over : BOOLEAN]
      BY <3>1, <3>4
    <3>8. y.err = "none" => Len(y.ators) = Len(r.ators) - 1
      BY <3>5 DEF Balanced
    <3> QED BY <2>1, <2>2, <2>4, <3>6, <3>7, <3>8 DEF V, z, r
  <2> QED BY <2>3, <2>4 DEF z, r
<1>3. PICK s \in V : q = s.parser /\ (s.over \/ s.parser.err # "none")
  <2>1. first = [parser |-> p, over |-> FALSE]
    OBVIOUS
  <2> HIDE DEF V, first
  <2> QED BY <1>1, <1>2, <2>1, Evaluated
<1> QED BY <1>3

(* Nothing is reduced when nothing binds as tightly.                        *)
LEMMA NothingToReduce ==
  ASSUME NEW p, NEW nd, NEW nb, NEW pri \in Priorities, Stacked(p, nd, nb), p.err = "none",
         ~ Tight(p, pri)
  PROVE  evaluntil(p, pri) = p
<1> DEFINE X == [parser : {p}, over : BOOLEAN]
           first == [parser |-> p, over |-> FALSE]
           last == [parser |-> p, over |-> TRUE]
<1>1. p \in Parsers /\ Len(p.ators) \in Nat \ {0}
  BY OpsAre
<1>2. ASSUME NEW s \in X
      PROVE  Round(s, pri) = last /\ s.parser = p
  <2>1. s \in [parser : Parsers, over : BOOLEAN] /\ s.parser = p
    BY <1>1
  <2>2. Len(s.parser.ators) >= 1
    BY <1>1, <2>1
  <2> QED BY <2>1, <2>2, RoundIs
<1>3. last \in X /\ first \in X /\ last.over = TRUE /\ first = [parser |-> p, over |-> FALSE]
  OBVIOUS
<1> HIDE DEF X, last, first
<1>4. ASSUME NEW s \in X
      PROVE  /\ Round(s, pri) \in X
             /\ Len(s.parser.ators) \in Nat
             /\ s.parser.err = "none" => Len(s.parser.ators) # 0
             /\ Round(s, pri).over
  BY <1>1, <1>2, <1>3
<1>5. Turned(X, pri)
  BY <1>4 DEF Turned
<1>6. PICK s \in X : evaluntil(p, pri) = s.parser
  BY <1>3, <1>5, Evaluated
<1> QED BY <1>2, <1>6

(* The last operator is reduced, and there the reductions end.               *)
OneLeft(p, nb) == nb[Len(p.ators)] = 0 /\ TopOp(p) = "cat" /\ Len(p.ators) = 2

LEMMA OneReduction ==
  ASSUME NEW p, NEW nd, NEW nb, Stacked(p, nd, nb), p.err = "none", OneLeft(p, nb),
         NEW q, q = evaluntil(p, "start"), q.err = "none"
  PROVE  q = Reduce(p) /\ Reduced(p, q)
<1> DEFINE W == {p, Reduce(p)}
           C == {}
<1>1. "start" \in Priorities /\ Matched(p, nb, "start")
  BY DEF Priorities, Matched, OneLeft
<1>2. Tight(p, "start")
  BY Precedences DEF Tight, OneLeft
<1>3. ASSUME Reduce(p).err = "none"
      PROVE  Reduced(p, Reduce(p)) /\ TopOp(Reduce(p)) = "sentinel"
  <2> DEFINE r == Reduce(p)
  <2>1. r = Reduce(p)
    OBVIOUS
  <2> HIDE DEF r
  <2>2. Stacked(r, nd, nb) /\ Reduced(p, r)
    BY <1>3, <2>1, ReduceCounts DEF OneLeft
  <2>3. Len(r.ators) = 1
    BY <2>2 DEF Reduced, OneLeft
  <2>4. TopOp(r) = "sentinel"
    BY <2>2, <2>3 DEF Stacked, TopOp
  <2> QED BY <2>1, <2>2, <2>4
<1>4. Keeps(nd, nb, "start", W, C)
  <2>1. SUFFICES ASSUME NEW r \in W, r.err = "none", TopOp(r) # "sentinel"
                 PROVE  TopOp(r) # "(" /\ Reduce(r) \in W
    BY DEF Keeps
  <2>2. r = p
    BY <1>3, <2>1
  <2> QED BY <2>2 DEF OneLeft
<1>5. p \in W
  OBVIOUS
<1> HIDE DEF W, C
<1>6. PICK s : s.parser = q /\ s.over = TRUE /\ Evaluating(s, p, nd, nb, "start", W, C)
  BY <1>1, <1>4, <1>5, Evaluation
<1>7. q \in W /\ ~ Tight(q, "start")
  BY <1>6 DEF Evaluating
<1>8. q = Reduce(p)
  BY <1>2, <1>7 DEF W
<1> QED BY <1>3, <1>8

(* END is one more operand.                                                 *)
Ending(p, c, q) == c = Cat(p) /\ c.err = "none" /\ Operating(c, q, EndInst)

LEMMA EndIsPushed ==
  ASSUME NEW p, NEW q, q = operand(p, Lexeme("end")), q.err = "none",
         \A c : c = Cat(p) /\ c.err = "none" => c \in Parsers
  PROVE  \E c : Ending(p, c, q)
<1> DEFINE c == Cat(p)
           i == Len(c.prog) + 1
           r == [c EXCEPT !.prog = Append(@, EndInst)]
<1>1. Lexeme("end").kind = "end" /\ spansOf(Lexeme("end")) = <<>>
  BY DEF Lexeme, spansOf, Classes
<1>2. IF c.err # "none" THEN q = c ELSE q = [pushand(r, Node(i, i)) EXCEPT !.lastwasand = TRUE]
  BY <1>1 DEF operand, EndInst
<1>3. c = Cat(p) /\ i = Len(c.prog) + 1 /\ r = [c EXCEPT !.prog = Append(@, EndInst)]
  OBVIOUS
<1> HIDE DEF c, i, r
<1>4. c.err = "none" /\ q = [pushand(r, Node(i, i)) EXCEPT !.lastwasand = TRUE] /\ c \in Parsers
  BY <1>2, <1>3
<1>5. EndInst \in Good
  BY DEF EndInst, Inst, Good, Instructions, Types
<1>6. Operating(c, q, EndInst)
  BY <1>3, <1>4, <1>5, OperandIsPushed
<1> QED BY <1>3, <1>4, <1>6 DEF Ending

(* An operator of two operands is pushed when the one before was complete.   *)
LEMMA CatSettles ==
  ASSUME NEW p, NEW nd, NEW nb, Stacked(p, nd, nb), p.err = "none", RegexpAssumption,
         NEW c, c = Cat(p), c.err = "none"
  PROVE  /\ c \in Parsers /\ c.nbra = p.nbra /\ (~ p.lastwasand => c = p)
         /\ \E nd2, nb2 : Stacked(c, nd2, nb2)
<1>1. CASE ~ p.lastwasand
  BY <1>1 DEF Cat, Stacked
<1>2. CASE p.lastwasand
  <2> DEFINE r == evaluntil(p, "cat")
  <2>1. c = Pushed(r, "cat") /\ r = evaluntil(p, "cat")
    BY <1>2 DEF Cat
  <2> HIDE DEF r
  <2>2. "cat" \in Priorities \ {")"} /\ "cat" \in {"("} \cup Binary \cup Unary /\ "cat" # "("
    BY DEF Priorities, Binary
  <2>3. Settled(p, r, nd, nb)
    BY <2>1, <2>2, EvaluationSettles
  <2>4. Pushing(r, c, "cat") /\ r.err = "none"
    <3>1. r.err = "none"
      BY <2>1 DEF Pushed
    <3> QED BY <2>1, <2>2, <2>3, <3>1, PushedIs DEF Settled
  <2>5. Stacked(r, nd, nb)
    BY <2>3, <2>4 DEF Settled
  <2>6. PICK nd2, nb2 : Pushes(r, c, "cat", nd, nb, nd2, nb2)
    BY <2>1, <2>2, <2>5, PushStacked
  <2>7. Stacked(c, nd2, nb2)
    BY <2>6 DEF Pushes
  <2> QED BY <1>2, <2>3, <2>4, <2>7 DEF Settled, Else, Pushing
<1> QED BY <1>1, <1>2

(* The steps at the end of the pattern.                                     *)
Closes(p, most, c, ended, whole, q) ==
    /\ most = evaluntil(p, "start") /\ most.err = "none" /\ most.lastwasand = p.lastwasand
    /\ Ending(most, c, ended)
    /\ whole = evaluntil(ended, "start") /\ whole.err = "none" /\ p.nbra = 0
    /\ q.prog = optimize(whole.prog) /\ q.start = Last(whole.ands).first
Closed(p, q) == \E most, c, ended, whole : Closes(p, most, c, ended, whole, q)

LEMMA CloseIs ==
  ASSUME NEW p, NEW nd, NEW nb, Stacked(p, nd, nb), p.err = "none", RegexpAssumption,
         NEW q, q = Close(p), q.err = "none"
  PROVE  Closed(p, q)
<1> DEFINE most == evaluntil(p, "start")
           ended == IF most.err # "none" THEN most ELSE operand(most, Lexeme("end"))
           whole == IF ended.err # "none" THEN ended ELSE evaluntil(ended, "start")
<1>1. q = IF whole.err # "none" THEN whole
          ELSE IF whole.nbra # 0 THEN rcerror(whole, "unmatched left paren")
          ELSE [whole EXCEPT !.prog = optimize(@), !.start = Last(whole.ands).first]
  BY DEF Close
<1>2. whole = IF ended.err # "none" THEN ended ELSE evaluntil(ended, "start")
  OBVIOUS
<1>3. ended = IF most.err # "none" THEN most ELSE operand(most, Lexeme("end"))
  OBVIOUS
<1>4. most = evaluntil(p, "start") /\ "start" \in Priorities \ {")"}
  BY DEF Priorities
<1> HIDE DEF most, ended, whole
<1>5. whole.err = "none" /\ ended.err = "none" /\ most.err = "none"
  BY <1>1, <1>2, <1>3
<1>6. Settled(p, most, nd, nb)
  BY <1>4, EvaluationSettles
<1>7. Stacked(most, nd, nb) /\ Else(p, most) /\ ended = operand(most, Lexeme("end"))
  BY <1>3, <1>5, <1>6 DEF Settled
<1>8. \A c : c = Cat(most) /\ c.err = "none" => c \in Parsers
  BY <1>5, <1>7, CatSettles
<1>9. PICK c : Ending(most, c, ended)
  BY <1>5, <1>7, <1>8, EndIsPushed
<1>10. c = Cat(most) /\ c.err = "none" /\ Operating(c, ended, EndInst)
  BY <1>9 DEF Ending
<1>11. c.nbra = most.nbra /\ \E nd2, nb2 : Stacked(c, nd2, nb2)
  BY <1>5, <1>7, <1>10, CatSettles
<1>12. PICK nd2, nb2 : Stacked(c, nd2, nb2)
  BY <1>11
<1>13. Stacked(ended, nd2, nb2)
  BY <1>10, <1>12, OperandStacked
<1>14. whole = evaluntil(ended, "start")
  BY <1>2, <1>5
<1>15. Settled(ended, whole, nd2, nb2)
  BY <1>4, <1>5, <1>13, <1>14, EvaluationSettles
<1>16. whole \in Parsers /\ whole.nbra = p.nbra
  BY <1>7, <1>10, <1>11, <1>15 DEF Settled, Else, Operating
<1>17. whole.nbra = 0
  <2>1. rcerror(whole, "unmatched left paren").err # "none"
    BY <1>16 DEF rcerror, Parsers
  <2> QED BY <1>1, <1>5, <2>1
<1>18. q = [whole EXCEPT !.prog = optimize(@), !.start = Last(whole.ands).first]
  BY <1>1, <1>5, <1>17
<1>19. q.prog = optimize(whole.prog) /\ q.start = Last(whole.ands).first
  <2> DEFINE o == optimize(whole.prog)
             f == Last(whole.ands).first
  <2>1. q = [whole EXCEPT !.prog = o, !.start = f]
    BY <1>18
  <2> HIDE DEF o, f
  <2>2. q.prog = o /\ q.start = f
    BY <1>16, <2>1 DEF Parsers
  <2> QED BY <2>2 DEF o, f
<1>20. most.lastwasand = p.lastwasand /\ p.nbra = 0
  BY <1>7, <1>16, <1>17 DEF Else
<1>21. Closes(p, most, c, ended, whole, q)
  BY <1>4, <1>5, <1>9, <1>14, <1>19, <1>20 DEF Closes
<1> QED BY <1>21 DEF Closed

(* All the operators are reduced.                                           *)
Bottom(p, nd, nb) ==
    /\ Stacked(p, nd, nb) /\ p.err = "none" /\ TopOp(p) = "sentinel" /\ Len(p.ators) = 1
    /\ nd[1] = 0 /\ nb[1] = 0

LEMMA BottomIs ==
  ASSUME NEW p, NEW nd, NEW nb, Stacked(p, nd, nb), p.err = "none", ~ Tight(p, "start")
  PROVE  Bottom(p, nd, nb)
<1>1. /\ TopOp(p) \in {"sentinel", "("} \cup Binary \cup Unary /\ Len(p.ators) \in Nat \ {0}
  BY OpsAre
<1>2. TopOp(p) = "sentinel"
  <2>1. ~ (Precedence(TopOp(p)) >= 0)
    BY Precedences DEF Tight
  <2> QED BY <1>1, <2>1, Precedences DEF Binary, Unary
<1>3. Len(p.ators) = 1
  <2> DEFINE n == Len(p.ators)
  <2>1. /\ n \in Nat \ {0} /\ p.ators[n].op = "sentinel"
        /\ \A i \in 2 .. n : p.ators[i].op # "sentinel"
    BY <1>1, <1>2 DEF Stacked, TopOp
  <2> HIDE DEF n
  <2>2. n = 1
    BY <2>1
  <2> QED BY <2>2 DEF n
<1>4. nd[1] = 0 /\ nb[1] = 0
  BY DEF Stacked, Counts
<1> QED BY <1>2, <1>3, <1>4 DEF Bottom

LEMMA AppendExcept ==
  ASSUME NEW S, NEW s \in Seq(S), NEW e \in S, NEW v \in S, NEW j \in 1 .. Len(s)
  PROVE  [Append(s, e) EXCEPT ![j] = v] = [s EXCEPT ![j] = v] \o <<e>>
<1> DEFINE a == [Append(s, e) EXCEPT ![j] = v]
           b == [s EXCEPT ![j] = v]
<1>1. b \in Seq(S) /\ Len(b) = Len(s) /\ \A i \in 1 .. Len(s) : b[i] = IF i = j THEN v ELSE s[i]
  OBVIOUS
<1>2. Append(s, e) \in Seq(S) /\ Len(Append(s, e)) = Len(s) + 1 /\ Len(s) \in Nat
  OBVIOUS
<1>3. a \in Seq(S) /\ Len(a) = Len(s) + 1
  BY <1>2
<1>4. \A i \in 1 .. Len(s) + 1 : a[i] = IF i = j THEN v ELSE IF i = Len(s) + 1 THEN e ELSE s[i]
  <2> DEFINE c == Append(s, e)
  <2>1. \A i \in 1 .. Len(s) + 1 : c[i] = IF i = Len(s) + 1 THEN e ELSE s[i]
    OBVIOUS
  <2>2. c \in Seq(S) /\ Len(c) = Len(s) + 1 /\ Len(s) \in Nat /\ a = [c EXCEPT ![j] = v]
    BY <1>2
  <2> HIDE DEF c, a
  <2>3. \A i \in 1 .. Len(s) + 1 : a[i] = IF i = j THEN v ELSE c[i]
    BY <2>2
  <2> QED BY <2>1, <2>3
<1> HIDE DEF a, b
<1>5. b \o <<e>> \in Seq(S) /\ Len(b \o <<e>>) = Len(s) + 1
  BY <1>1
<1>6. \A i \in 1 .. Len(s) + 1 : (b \o <<e>>)[i] = IF i = Len(s) + 1 THEN e ELSE b[i]
  BY <1>1
<1>7. \A i \in 1 .. Len(s) + 1 : a[i] = (b \o <<e>>)[i]
  BY <1>1, <1>2, <1>4, <1>6
<1>8. a = b \o <<e>>
  <2>1. a \in Seq(S) /\ b \o <<e>> \in Seq(S) /\ Len(a) = Len(b \o <<e>>)
        /\ \A i \in 1 .. Len(a) : a[i] = (b \o <<e>>)[i]
    BY <1>2, <1>3, <1>5, <1>7
  <2> HIDE DEF a
  <2> DEFINE c == b \o <<e>>
  <2> HIDE DEF c
  <2>2. a \in Seq(S) /\ c \in Seq(S) /\ Len(a) = Len(c) /\ \A i \in 1 .. Len(a) : a[i] = c[i]
    BY <2>1 DEF c
  <2>3. a = c
    BY <2>2
  <2> QED BY <2>3 DEF c
<1> QED BY <1>8 DEF a, b

LEMMA LinkedEnd ==
  ASSUME NEW prog, NEW x, LastOperand(prog, 1, x), NEW i, i = Len(prog) + 1,
         NEW new, new = Link(Append(prog, EndInst), x, i)
  PROVE  EndLinked(prog, new, x, i)
<1> DEFINE N == Len(prog)
<1>1. prog \in Seq(Good) /\ Fragment(prog, 1, N, x) /\ N \in Nat /\ 1 \in Nat \ {0} /\ i = N + 1
  BY DEF LastOperand
<1>2. EndInst \in Good
  BY DEF EndInst, Inst, Good, Instructions, Types
<1>3. x.last \in 1 .. N /\ i \in Nat
  BY <1>1 DEF Fragment
<1> DEFINE e == EndInst
           v == [prog[x.last] EXCEPT !.next = i]
           old == prog \o <<e>>
           made == Link(prog, x, i) \o <<e>>
<1>4. new = made
  <2>1. Append(prog, e)[x.last] = prog[x.last]
    BY <1>1, <1>2, <1>3
  <2>2. new = [Append(prog, e) EXCEPT ![x.last] = v] /\ Link(prog, x, i) = [prog EXCEPT ![x.last] = v]
    BY <2>1 DEF Link
  <2>3. v \in Good
    <3> DEFINE in == prog[x.last]
    <3>1. in \in Good
      BY <1>1, <1>3
    <3> HIDE DEF in
    <3>2. [in EXCEPT !.next = i] \in Good
      BY <1>3, <3>1, GoodLinked
    <3> QED BY <3>2 DEF in
  <2> HIDE DEF v
  <2>4. [Append(prog, e) EXCEPT ![x.last] = v] = [prog EXCEPT ![x.last] = v] \o <<e>>
    BY <1>1, <1>2, <1>3, <2>3, AppendExcept
  <2> QED BY <2>2, <2>4
<1>5. <<e>> \in Seq(Good) /\ Len(<<e>>) = 1 /\ <<e>>[1] = EndInst
  BY <1>2
<1> DEFINE tail == <<e>>
<1>6. tail \in Seq(Good) /\ Len(tail) = 1 /\ tail[1] = EndInst /\ new = Link(prog, x, i) \o tail
  BY <1>4, <1>5
<1> HIDE DEF tail
<1>7. Tailed(prog, new, 1, i, tail)
  BY <1>1, <1>3, <1>6, LinkedProgram
<1>8. /\ new \in Seq(Good) /\ Len(new) = N + Len(tail) /\ Grows(prog, new, 1 .. N, i)
      /\ \A m \in 1 .. Len(tail) : new[N + m] = tail[m]
  BY <1>7 DEF Tailed
<1> HIDE DEF N
<1>9. Len(new) = i /\ new[i] = EndInst
  BY <1>1, <1>6, <1>8
<1> QED BY <1>1, <1>8, <1>9 DEF EndLinked, N

(* The operand that is left and END are put together.                       *)
Concluded(p, whole, x) ==
    /\ Len(p.ands) >= 1 /\ x = p.ands[Len(p.ands)]
    /\ whole.prog = Link(Append(p.prog, EndInst), x, Len(p.prog) + 1)
    /\ Last(whole.ands).first = x.first

LEMMA EndIsReduced ==
  ASSUME NEW p, NEW nd, NEW nb, Bottom(p, nd, nb), p.lastwasand,
         NEW c, NEW ended, Ending(p, c, ended),
         NEW whole, whole = evaluntil(ended, "start"), whole.err = "none", RegexpAssumption
  PROVE  \E x : Concluded(p, whole, x)
<1>1. Stacked(p, nd, nb) /\ p.err = "none" /\ TopOp(p) = "sentinel" /\ Len(p.ators) = 1 /\ nb[1] = 0
  BY DEF Bottom
<1>2. "cat" \in Priorities /\ "cat" \in {"("} \cup Binary \cup Unary /\ "cat" # "("
  BY DEF Priorities, Binary
<1>3. ~ Tight(p, "cat")
  BY <1>1, Precedences DEF Tight
<1>4. evaluntil(p, "cat") = p
  BY <1>1, <1>2, <1>3, NothingToReduce
<1>5. c = Pushed(p, "cat") /\ c.err = "none" /\ Operating(c, ended, EndInst)
  BY <1>4 DEF Ending, Cat
<1>6. PICK nd2, nb2 : Pushes(p, c, "cat", nd, nb, nd2, nb2)
  BY <1>1, <1>2, <1>5, PushStacked
<1>7. Pushing(p, c, "cat") /\ Stacked(c, nd2, nb2) /\ Counting(p, c, nb, nb2, {"("})
  BY <1>6 DEF Pushes
<1>8. Len(c.ators) = 2 /\ TopOp(c) = "cat" /\ c.prog = p.prog /\ c.ands = p.ands
  BY <1>1, <1>7 DEF Pushing, TopOp
<1>9. nb2[Len(c.ators)] = 0
  <2>1. TopOp(c) \notin {"("} /\ nb2[Len(c.ators)] = nb[Len(p.ators)] + (IF TopOp(c) \in {"("} THEN 1 ELSE 0)
    BY <1>7, <1>8 DEF Counting
  <2>2. nb[Len(p.ators)] = 0
    BY <1>1
  <2> QED BY <2>1, <2>2
<1>10. Stacked(ended, nd2, nb2) /\ ended.err = "none" /\ ended.ators = c.ators
  BY <1>5, <1>7, OperandStacked DEF Operating
<1>11. OneLeft(ended, nb2)
  BY <1>8, <1>9, <1>10 DEF OneLeft, TopOp
<1>12. Reduced(ended, whole)
  BY <1>10, <1>11, OneReduction
<1> DEFINE n == Len(p.ands)
           i == Len(p.prog) + 1
           x == p.ands[n]
           e == Node(i, i)
<1>13. /\ p.ands \in Seq(Parts) /\ p.prog \in Seq(Good) /\ n \in Nat /\ Len(p.prog) \in Nat
  <2>1. p.ands \in Seq(Parts) /\ p.prog \in Seq(Good)
    BY <1>1, OpsAre
  <2> QED BY <2>1, LenProperties
<1>14. ended.prog = Append(p.prog, EndInst) /\ ended.ands = Append(p.ands, e)
  BY <1>5, <1>8 DEF Operating
<1>15. e \in Parts /\ e.first = i
  BY <1>13 DEF Node, Parts
<1> HIDE DEF e
<1>16. Len(ended.ands) = n + 1 /\ ended.ands[n + 1] = e /\ (n >= 1 => ended.ands[n] = x)
  BY <1>13, <1>14, <1>15
<1>17. Arity(TopOp(ended)) = 2
  BY <1>8, <1>10 DEF Arity, TopOp, Binary
<1>18. n >= 1
  BY <1>12, <1>13, <1>16, <1>17 DEF Reduced
<1>19. MadeOf(ended) = Made(Link(Append(p.prog, EndInst), x, i), Node(x.first, e.last))
  <2>1. TopOp(ended) = "cat" /\ Len(ended.ands) = n + 1 /\ n + 1 - 1 = n
    BY <1>8, <1>10, <1>13, <1>16 DEF TopOp
  <2>2. ended.ands[Len(ended.ands)] = e /\ ended.ands[Len(ended.ands) - 1] = x
    BY <1>16, <1>18, <2>1
  <2> HIDE DEF n, x, i
  <2> QED BY <1>14, <1>15, <2>1, <2>2 DEF MadeOf, Applied
<1>20. whole.prog = Link(Append(p.prog, EndInst), x, i) /\ whole.ands[Len(whole.ands)].first = x.first
  BY <1>12, <1>19 DEF Reduced, Made, Node
<1>21. Last(whole.ands).first = x.first
  BY <1>20 DEF Last
<1>22. Concluded(p, whole, x)
  BY <1>18, <1>20, <1>21 DEF Concluded
<1> QED BY <1>22

LEMMA MostIs ==
  ASSUME NEW p, NEW nd, NEW nb, NEW ts \in Seq(Lexemes), NEW t \in Seq(Nat), NEW k \in Nat,
         Parsed(p, nd, nb, ts, t, k), p.nbra = 0, NEW q, q = evaluntil(p, "start"), q.err = "none"
  PROVE  /\ After(p, q, nd, nb) /\ Bottom(q, nd, nb)
         /\ p.lastwasand => Having(q, nd, ts, t, k, "start")
<1>1. Stacked(p, nd, nb) /\ p.err = "none" /\ Consumed(p, nd, nb, ts, t, k) /\ nb[Len(p.ators)] = 0
  BY DEF Parsed, Consumed
<1>2. "start" \in Priorities /\ Matched(p, nb, "start") /\ Closing(ts, k, "start")
  BY <1>1 DEF Priorities, Matched, Closing
<1>3. After(p, q, nd, nb) /\ ~ Tight(q, "start")
  BY <1>1, <1>2, EvaluationKeeps
<1>4. Stacked(q, nd, nb)
  BY <1>3 DEF After
<1>5. Bottom(q, nd, nb)
  BY <1>3, <1>4, BottomIs
<1>6. ASSUME p.lastwasand
      PROVE  Having(q, nd, ts, t, k, "start")
  <2>1. Having(p, nd, ts, t, k, "start")
    BY <1>1, ConsumedHas
  <2> QED BY <1>1, <1>2, <2>1, EvaluationHas
<1> QED BY <1>3, <1>5, <1>6

(* What the machine is left with.                                           *)
Final(q, whole) == q.prog = optimize(whole.prog) /\ q.start = Last(whole.ands).first
Right(q, ts, t) == Runnable(q) /\ Accepted(q, t) \in Meanings(ts, t)

LEMMA OperandConcludes ==
  ASSUME NEW p, NEW nd, NEW nb, Bottom(p, nd, nb), NEW ts \in Seq(Lexemes), NEW t \in Seq(Nat),
         NEW k, k = Len(ts), Have(p, nd, ts, t, k, "start"), NEW whole, NEW x, Concluded(p, whole, x),
         NEW q, Final(q, whole)
  PROVE  Right(q, ts, t)
<1>1. Stacked(p, nd, nb) /\ TopOp(p) = "sentinel" /\ Len(p.ators) = 1 /\ nd[1] = 0
  BY DEF Bottom
<1>2. Len(p.ators) \in Nat \ {0} /\ TopOp(p) \notin Unary
  BY <1>1 DEF Unary
<1>3. PICK h, V, at, kind : Ready(p, nd, ts, t, k, "start", h, V, at, kind)
  BY <1>2, HaveReady
<1>15. LaidOut(p.prog, p.ands, t, h, V)
  BY <1>3 DEF Ready
<1>4. /\ Len(p.ands) = 1 /\ at[1] = 0
      /\ Fits(kind, "sentinel", "start") /\ Spells(ts, t, kind, 0, k, V[1])
  BY <1>1, <1>3 DEF Ready, Structured
<1>5. Spells(ts, t, "tree", 0, k, V[1])
  BY <1>4, ItIsATree
<1>6. x = p.ands[1] /\ x = p.ands[Len(p.ands)] /\ 1 = Len(p.ands) /\ h[0] = 0
  BY <1>4, <1>15 DEF Concluded, LaidOut
<1>7. LastOperand(p.prog, 1, x) /\ V[1] = Through(p.prog, t, x)
  <2> DEFINE m == 1
             lo == h[m - 1] + 1
  <2>1. m = Len(p.ands) /\ 1 <= m /\ lo = h[m - 1] + 1
    BY <1>6
  <2>2. m = 1 /\ lo = 1
    BY <1>6
  <2> HIDE DEF m, lo
  <2>3. LastOperand(p.prog, lo, p.ands[m]) /\ V[m] = Through(p.prog, t, p.ands[m])
    BY <1>15, <2>1, LastOperandLaid
  <2> QED BY <1>6, <2>2, <2>3
<1> DEFINE i == Len(p.prog) + 1
           new == Link(Append(p.prog, EndInst), x, i)
<1>8. i = Len(p.prog) + 1 /\ new = Link(Append(p.prog, EndInst), x, i)
  OBVIOUS
<1>9. whole.prog = new /\ q.start = x.first
  BY DEF Concluded, Final
<1> HIDE DEF i, new
<1>10. EndLinked(p.prog, new, x, i)
  BY <1>7, <1>8, LinkedEnd
<1>11. q.prog = optimize(new)
  BY <1>9 DEF Final
<1>12. Runnable(q) /\ Accepted(q, t) = V[1]
  BY <1>7, <1>9, <1>10, <1>11, OperandProgram
<1>13. V[1] \in Meanings(ts, t)
  <2>1. Means(ts, t, "tree", 1, k, V[1])
    BY <1>5 DEF Spells
  <2> DEFINE f == Fact("tree", 1, k, V[1])
  <2>2. f \in Facts(ts, t) /\ f.kind = "tree" /\ f.from = 1 /\ f.to = Len(ts) /\ f.spans = V[1]
    BY <2>1 DEF Means, Fact
  <2>3. ts # <<>>
    <3>1. 1 <= k
      BY <2>1, MeansTyped
    <3> QED BY <3>1
  <2> HIDE DEF f
  <2> QED BY <2>2, <2>3 DEF Meanings
<1> QED BY <1>12, <1>13 DEF Right

LEMMA NothingLeft ==
  ASSUME NEW S, NEW s \in Seq(S), NEW k, k = Len(s), k = 0
  PROVE  s = <<>>
BY EmptySeq

LEMMA SingleOne ==
  ASSUME NEW e
  PROVE  Append(<<>>, e) = <<e>> /\ Last(<<e>>) = e
BY DEF Last

LEMMA EmptyConcludes ==
  ASSUME NEW p, NEW nd, NEW nb, Stacked(p, nd, nb), ~ p.lastwasand, RegexpAssumption,
         NEW ts \in Seq(Lexemes), NEW t \in Seq(Nat), NEW k, k = Len(ts), Wanting(p, nd, ts, t, k),
         NEW most, After(p, most, nd, nb), Bottom(most, nd, nb), ~ most.lastwasand,
         NEW c, NEW ended, Ending(most, c, ended),
         NEW whole, whole = evaluntil(ended, "start"), whole.err = "none",
         NEW q, Final(q, whole)
  PROVE  Right(q, ts, t)
<1>1. /\ Stacked(most, nd, nb) /\ most.err = "none" /\ TopOp(most) = "sentinel"
      /\ Len(most.ators) = 1 /\ nd[1] = 0
  BY DEF Bottom
<1>2. /\ Len(most.ands) \in Nat /\ Len(p.ands) \in Nat /\ nd \in [Nat -> Nat]
      /\ Len(p.ators) \in Nat /\ most.ands \in Seq(Parts) /\ most.prog \in Seq(Good)
  BY <1>1, OpsAre
<1>3. 0 - Len(most.ands) = nd[Len(p.ators)] - Len(p.ands) /\ (most = p \/ Len(most.ands) >= 1)
  BY <1>1 DEF After
<1>4. nd[Len(p.ators)] \in Nat
  BY <1>2
<1>5. Want(p, nd, ts, t, k)
  <2> DEFINE a == Len(most.ands)
             b == Len(p.ands)
             n == nd[Len(p.ators)]
  <2>1. a \in Nat /\ b \in Nat /\ n \in Nat /\ 0 - a = n - b
    BY <1>2, <1>3, <1>4
  <2> HIDE DEF a, b, n
  <2>2. ~ (b < n + 0)
    BY <2>1
  <2>3. ~ Lacks(p, nd, 0)
    BY <2>2 DEF Lacks, b, n
  <2> QED BY <2>3 DEF Wanting
<1>6. PICK h, V, at :
        /\ LaidOut(p.prog, p.ands, t, h, V) /\ Len(p.ands) = nd[Len(p.ators)]
        /\ Structured(p.ators, nd, V, ts, t, at, Len(p.ators)) /\ at[Len(p.ators)] = k
  BY <1>5 DEF Want
<1>7. Len(most.ands) = 0 /\ most = p
  <2> DEFINE a == Len(most.ands)
             b == Len(p.ands)
             n == nd[Len(p.ators)]
  <2>1. a \in Nat /\ b \in Nat /\ n \in Nat /\ 0 - a = n - b /\ b = n /\ (most = p \/ a >= 1)
    BY <1>2, <1>3, <1>4, <1>6
  <2> HIDE DEF a, b, n
  <2>2. a = 0 /\ most = p
    BY <2>1
  <2> QED BY <2>2 DEF a
<1>8. k = 0
  BY <1>1, <1>6, <1>7 DEF Structured
<1>9. ts = <<>>
  BY <1>8, NothingLeft
<1>10. most.prog = <<>> /\ most.ands = <<>>
  <2>1. Len(most.prog) = 0
    BY <1>6, <1>7 DEF LaidOut
  <2> QED BY <1>2, <1>7, <2>1
<1>11. c = most /\ Operating(c, ended, EndInst)
  BY <1>1, CatSettles DEF Ending
<1>12. ended.prog = <<EndInst>> /\ ended.ands = <<Node(1, 1)>> /\ ended.ators = most.ators
  <2>1. Len(most.prog) + 1 = 1
    BY <1>10
  <2>2. ended.prog = Append(<<>>, EndInst) /\ ended.ands = Append(<<>>, Node(1, 1))
    BY <1>10, <1>11, <2>1 DEF Operating
  <2> QED BY <1>11, <2>2, SingleOne DEF Operating
<1>13. Stacked(ended, nd, nb) /\ ended.err = "none"
  BY <1>1, <1>11, OperandStacked DEF Operating
<1>14. ~ Tight(ended, "start") /\ "start" \in Priorities
  BY <1>1, <1>12, Precedences DEF Tight, TopOp, Priorities
<1>15. whole = ended
  BY <1>13, <1>14, NothingToReduce
<1>16. q.prog = optimize(<<EndInst>>) /\ q.start = 1
  <2>1. Last(<<Node(1, 1)>>) = Node(1, 1) /\ Node(1, 1).first = 1
    BY SingleOne DEF Node
  <2> QED BY <1>12, <1>15, <2>1 DEF Final
<1>17. Runnable(q) /\ Accepted(q, t) = Empties(t)
  BY <1>16, EmptyProgram
<1> QED BY <1>9, <1>17 DEF Right, Meanings

(* At the end of the pattern the program is one for what the pattern means.  *)
LEMMA CloseIsRight ==
  ASSUME NEW p, NEW ts \in Seq(Lexemes), NEW t \in Seq(Nat), NEW k, k = Len(ts),
         Proceeds(p, ts, t, k), NEW q, q = Close(p), q.err = "none", RegexpAssumption
  PROVE  Right(q, ts, t)
<1>1. PICK nd, nb : Parsed(p, nd, nb, ts, t, k)
  BY DEF Proceeds
<1>2. Stacked(p, nd, nb) /\ p.err = "none" /\ k \in Nat
  BY <1>1, LenProperties DEF Parsed, Consumed
<1>3. PICK most, c, ended, whole : Closes(p, most, c, ended, whole, q)
  BY <1>2, CloseIs DEF Closed
<1>4. /\ most = evaluntil(p, "start") /\ most.err = "none" /\ most.lastwasand = p.lastwasand
      /\ Ending(most, c, ended)
      /\ whole = evaluntil(ended, "start") /\ whole.err = "none" /\ p.nbra = 0
      /\ Final(q, whole)
  BY <1>3 DEF Closes, Final
<1>5. /\ After(p, most, nd, nb) /\ Bottom(most, nd, nb)
      /\ p.lastwasand => Having(most, nd, ts, t, k, "start")
  BY <1>1, <1>2, <1>4, MostIs
<1>6. CASE p.lastwasand
  <2>1. PICK x : Concluded(most, whole, x)
    BY <1>4, <1>5, <1>6, EndIsReduced
  <2>2. Have(most, nd, ts, t, k, "start")
    <3>1. nd[1] = 0 /\ Len(most.ators) = 1
      BY <1>5 DEF Bottom
    <3>2. ~ Lacks(most, nd, 1)
      BY <2>1, <3>1 DEF Concluded, Lacks
    <3> QED BY <1>5, <1>6, <3>2 DEF Having
  <2> QED BY <1>4, <1>5, <2>1, <2>2, OperandConcludes
<1>7. CASE ~ p.lastwasand
  <2>1. Wanting(p, nd, ts, t, k)
    BY <1>1, <1>7 DEF Parsed, Consumed
  <2> QED BY <1>2, <1>4, <1>5, <1>7, <2>1, EmptyConcludes
<1> QED BY <1>6, <1>7

-----------------------------------------------------------------------------
(* Classes                                                                 *)

Pairs == Int \X Int

LEMMA PairExcept ==
  ASSUME NEW x \in Pairs, NEW v \in Int
  PROVE  [x EXCEPT ![2] = v] = <<x[1], v>> /\ <<x[1], v>> \in Pairs
<1>1. PICK a \in Int, b \in Int : x = <<a, b>>
  BY DEF Pairs
<1>2. [<<a, b>> EXCEPT ![2] = v] = <<a, v>>
  OBVIOUS
<1> QED BY <1>1, <1>2 DEF Pairs

(* The last span is stretched to v.                                         *)
Longer(s, d, v) ==
    /\ d \in Seq(Pairs) /\ Len(d) = Len(s) /\ \A j \in 1 .. Len(s) - 1 : d[j] = s[j]
    /\ d[Len(s)] = <<s[Len(s)][1], v>>

LEMMA LastIsStretched ==
  ASSUME NEW s \in Seq(Pairs), Len(s) >= 1, NEW v \in Int,
         NEW d, d = [s EXCEPT ![Len(s)][2] = v]
  PROVE  Longer(s, d, v)
<1> DEFINE n == Len(s)
           y == [s[n] EXCEPT ![2] = v]
<1>1. n \in Nat \ {0} /\ n \in 1 .. Len(s) /\ s[n] \in Pairs
  OBVIOUS
<1>2. y = <<s[n][1], v>> /\ y \in Pairs
  <2> DEFINE x == s[n]
  <2>1. x \in Pairs
    BY <1>1
  <2> HIDE DEF x
  <2>2. [x EXCEPT ![2] = v] = <<x[1], v>> /\ <<x[1], v>> \in Pairs
    BY <2>1, PairExcept
  <2> QED BY <2>2 DEF x
<1>3. d = [s EXCEPT ![n] = y]
  OBVIOUS
<1> HIDE DEF y
<1>4. d \in Seq(Pairs) /\ Len(d) = Len(s) /\ d[n] = y /\ \A j \in 1 .. n - 1 : d[j] = s[j]
  <2> HIDE DEF n
  <2>1. /\ [s EXCEPT ![n] = y] \in Seq(Pairs) /\ Len([s EXCEPT ![n] = y]) = Len(s)
        /\ \A j \in 1 .. Len(s) : [s EXCEPT ![n] = y][j] = IF j = n THEN y ELSE s[j]
    BY <1>1, <1>2, ExceptSeq
  <2>2. n = Len(s) /\ \A j \in 1 .. n - 1 : j \in 1 .. n /\ j # n
    BY <1>1 DEF n
  <2> QED BY <1>1, <1>3, <2>1, <2>2
<1> QED BY <1>2, <1>4 DEF Longer

(* What is read of a class.                                                *)
Drafts == {c \in [spans : Seq(Pairs), stretch : BOOLEAN, bad : BOOLEAN] :
             c.stretch => Len(c.spans) >= 1}
Items == Nat \cup {Dash}

ItemRead(c, item, d) ==
    /\ c.stretch => ~ d.stretch /\ d.bad = c.bad /\ Longer(c.spans, d.spans, RuneOf(item))
    /\ ~ c.stretch /\ item = Dash =>
          d.spans = c.spans /\ d.stretch = (c.spans # <<>>) /\ d.bad = (c.bad \/ c.spans = <<>>)
    /\ ~ c.stretch /\ item # Dash =>
          d.spans = Append(c.spans, <<item, item>>) /\ ~ d.stretch /\ d.bad = c.bad

LEMMA ReadItemIs ==
  ASSUME NEW c \in Drafts, NEW item \in Items, NEW d, d = ReadItem(c, item)
  PROVE  d \in Drafts /\ ItemRead(c, item, d)
<1>1. /\ c \in [spans : Seq(Pairs), stretch : BOOLEAN, bad : BOOLEAN]
      /\ c.stretch => Len(c.spans) >= 1
  BY DEF Drafts
<1>2. CASE c.stretch
  <2> DEFINE v == RuneOf(item)
             e == [c.spans EXCEPT ![Len(c.spans)][2] = v]
  <2>1. d = [c EXCEPT !.spans = e, !.stretch = FALSE]
    BY <1>1, <1>2 DEF ReadItem
  <2>2. v \in Int
    BY DEF RuneOf, Items, Dash, DashRune
  <2> HIDE DEF v
  <2>3. Longer(c.spans, e, v) /\ c.spans \in Seq(Pairs)
    BY <1>1, <1>2, <2>2, LastIsStretched
  <2> HIDE DEF e
  <2>4. e \in Seq(Pairs)
    BY <2>3 DEF Longer
  <2>5. d.spans = e /\ d.stretch = FALSE /\ d.bad = c.bad /\ d \in Drafts
    BY <1>1, <2>1, <2>4 DEF Drafts
  <2> QED BY <1>2, <2>3, <2>5 DEF ItemRead, v
<1>3. CASE ~ c.stretch /\ item = Dash
  <2> DEFINE b == c.spans # <<>>
             o == c.bad \/ c.spans = <<>>
  <2>1. d = [c EXCEPT !.stretch = b, !.bad = o]
    BY <1>1, <1>3 DEF ReadItem
  <2>2. b \in BOOLEAN /\ o \in BOOLEAN /\ (b => Len(c.spans) >= 1)
    <3>1. c.spans # <<>> => Len(c.spans) \in Nat \ {0}
      BY <1>1, EmptySeq
    <3> QED BY <3>1
  <2> HIDE DEF b, o
  <2>3. d.spans = c.spans /\ d.stretch = b /\ d.bad = o /\ d \in Drafts
    BY <1>1, <2>1, <2>2 DEF Drafts
  <2> QED BY <1>3, <2>3 DEF ItemRead, b, o
<1>4. CASE ~ c.stretch /\ item # Dash
  <2> DEFINE e == Append(c.spans, <<item, item>>)
  <2>1. d = [c EXCEPT !.spans = e]
    BY <1>1, <1>4 DEF ReadItem
  <2>2. e \in Seq(Pairs)
    BY <1>1, <1>4 DEF Items, Pairs
  <2>3. e = Append(c.spans, <<item, item>>)
    OBVIOUS
  <2> HIDE DEF e
  <2>4. d.spans = e /\ d.stretch = c.stretch /\ d.bad = c.bad /\ d \in Drafts
    BY <1>1, <1>4, <2>1, <2>2 DEF Drafts
  <2> QED BY <1>4, <2>3, <2>4 DEF ItemRead
<1> QED BY <1>2, <1>3, <1>4

Reading(x, g) ==
    /\ g \in [0 .. Len(x.items) -> Drafts] /\ g[0] = Opened(x)
    /\ \A i \in 1 .. Len(x.items) : g[i] = ReadItem(g[i - 1], x.items[i])

LEMMA OpenedIs ==
  ASSUME NEW x, NEW c, c = Opened(x)
  PROVE  /\ c \in Drafts /\ ~ c.stretch /\ ~ c.bad
         /\ c.spans = IF x.kind = "nclass" THEN <<<<Newline, Newline>>>> ELSE <<>>
<1> DEFINE s == IF x.kind = "nclass" THEN <<<<Newline, Newline>>>> ELSE <<>>
<1>1. c = [spans |-> s, stretch |-> FALSE, bad |-> FALSE]
  BY DEF Opened
<1>2. s \in Seq(Pairs)
  BY DEF Pairs, Newline
<1> HIDE DEF s
<1>3. c.spans = s /\ ~ c.stretch /\ ~ c.bad /\ c \in Drafts
  BY <1>1, <1>2 DEF Drafts
<1> QED BY <1>3 DEF s

LEMMA ClassIsRead ==
  ASSUME NEW x \in Lexemes
  PROVE  \E g : Reading(x, g) /\ ReadClass(x) = g[Len(x.items)]
<1> DEFINE n == Len(x.items)
           a == Opened(x)
           F == [i \in 1 .. n |-> [c \in Drafts |-> ReadItem(c, x.items[i])]]
           Is(f) == f = [i \in 0 .. n |-> IF i = 0 THEN a ELSE ReadItem(f[i - 1], x.items[i])]
           read == CHOOSE f : Is(f)
<1>1. x.items \in Seq(Items) /\ n \in Nat /\ \A i \in 1 .. n : x.items[i] \in Items
  BY DEF Lexemes, Items
<1>2. a \in Drafts
  BY OpenedIs
<1>3. ReadClass(x) = read[n]
  BY DEF ReadClass
<1> HIDE DEF n, a
<1>4. \A i \in 1 .. n : F[i] \in [Drafts -> Drafts]
  BY <1>1, ReadItemIs
<1>5. PICK g \in [0 .. n -> Drafts] : ByRecursion(g, F, a, n)
  <2> HIDE DEF F
  <2> QED BY <1>1, <1>2, <1>4, RecursionExists
<1>6. g[0] = a /\ \A i \in 1 .. n : i - 1 \in 0 .. n /\ g[i] = ReadItem(g[i - 1], x.items[i])
  <2>1. \A i \in 1 .. n : i - 1 \in 0 .. n
    BY <1>1
  <2>2. \A i \in 1 .. n : g[i - 1] \in Drafts
    BY <1>5, <2>1
  <2> QED BY <1>5, <2>1, <2>2 DEF ByRecursion
<1>7. Is(g)
  <2>1. \A i \in 0 .. n : g[i] = IF i = 0 THEN a ELSE ReadItem(g[i - 1], x.items[i])
    BY <1>1, <1>6
  <2> QED BY <1>5, <2>1
<1>8. Is(read)
  <2> HIDE DEF Is
  <2> QED BY <1>7
<1>9. read[0] = a /\ \A i \in 1 .. n : read[i] = ReadItem(read[i - 1], x.items[i])
  <2>1. \A i \in 0 .. n : read[i] = IF i = 0 THEN a ELSE ReadItem(read[i - 1], x.items[i])
    BY <1>8
  <2> HIDE DEF read
  <2> QED BY <1>1, <2>1
<1> HIDE DEF read, Is, F
<1>10. {i \in 0 .. n : read[i] = g[i]} = 0 .. n
  <2> DEFINE P == {i \in 0 .. n : read[i] = g[i]}
  <2>1. P \in SUBSET (0 .. n) /\ 0 \in P
    BY <1>1, <1>6, <1>9
  <2>2. \A i \in 1 .. n : i - 1 \in P => i \in P
    BY <1>1, <1>6, <1>9
  <2> HIDE DEF P
  <2>3. P = 0 .. n
    BY <1>1, <2>1, <2>2, UpTo
  <2> QED BY <2>3 DEF P
<1>11. read[n] = g[n]
  BY <1>1, <1>10
<1>12. Reading(x, g)
  BY <1>5, <1>6 DEF Reading, n, a
<1> QED BY <1>3, <1>11, <1>12 DEF n

LEMMA NothingIsBad ==
  ASSUME NEW x \in Lexemes, NEW g, Reading(x, g), NEW n, n = Len(x.items), ~ g[n].bad
  PROVE  \A i \in 0 .. n : ~ g[i].bad
<1>1. /\ n \in Nat /\ \A i \in 1 .. n : x.items[i] \in Items
      /\ g \in [0 .. n -> Drafts] /\ \A i \in 1 .. n : g[i] = ReadItem(g[i - 1], x.items[i])
  BY DEF Lexemes, Items, Reading
<1>2. ASSUME NEW i \in 1 .. n, g[i - 1].bad
      PROVE  g[i].bad
  <2>1. i - 1 \in 0 .. n /\ g[i - 1] \in Drafts /\ x.items[i] \in Items
    BY <1>1
  <2>2. g[i] = ReadItem(g[i - 1], x.items[i])
    BY <1>1
  <2>3. ItemRead(g[i - 1], x.items[i], g[i])
    BY <2>1, <2>2, ReadItemIs
  <2> QED BY <1>2, <2>3 DEF ItemRead
<1> DEFINE P == {j \in 0 .. n : ~ g[n - j].bad}
<1>3. 0 \in P /\ P \in SUBSET (0 .. n)
  BY <1>1
<1>4. \A j \in 1 .. n : j - 1 \in P => j \in P
  <2> SUFFICES ASSUME NEW j \in 1 .. n, ~ g[n - (j - 1)].bad
               PROVE  ~ g[n - j].bad
    BY <1>1
  <2> DEFINE i == n - j + 1
  <2>1. i \in 1 .. n /\ i - 1 = n - j /\ i = n - (j - 1)
    BY <1>1
  <2> HIDE DEF i
  <2> QED BY <1>2, <2>1
<1> HIDE DEF P
<1>5. P = 0 .. n
  BY <1>1, <1>3, <1>4, UpTo
<1> SUFFICES ASSUME NEW i \in 0 .. n PROVE ~ g[i].bad
  OBVIOUS
<1>6. n - i \in 0 .. n /\ n - (n - i) = i
  BY <1>1
<1> QED BY <1>5, <1>6 DEF P

(* A class that is well formed: the dashes that stretch are the ones of the  *)
(* definition, and the last item stretches nothing.                        *)
Well(x, g, S) ==
    /\ Reading(x, g) /\ S = Stretching(x.items)
    /\ S \in SUBSET (1 .. Len(x.items)) /\ Len(x.items) \notin S
    /\ \A i \in 1 .. Len(x.items) :
          /\ i - 1 \in S => /\ i \notin S /\ Len(g[i - 1].spans) >= 1
                            /\ Longer(g[i - 1].spans, g[i].spans, RuneOf(x.items[i]))
          /\ i - 1 \notin S /\ i \in S => g[i].spans = g[i - 1].spans
          /\ i - 1 \notin S /\ i \notin S =>
                /\ g[i].spans = Append(g[i - 1].spans, <<x.items[i], x.items[i]>>)
                /\ RuneOf(x.items[i]) = x.items[i]

Stretchers(items, S) == \A k \in DOMAIN items : k \in S <=> items[k] = Dash /\ k - 1 \notin S

LEMMA StretchersAreUnique ==
  ASSUME NEW n \in Nat, NEW items, DOMAIN items = 1 .. n,
         NEW S \in SUBSET (1 .. n), NEW R \in SUBSET (1 .. n), Stretchers(items, S), Stretchers(items, R)
  PROVE  S = R
<1> DEFINE P == {j \in 0 .. n : j \in S <=> j \in R}
<1>1. P \in SUBSET (0 .. n) /\ 0 \in P
  OBVIOUS
<1>2. ASSUME NEW j \in 1 .. n, j - 1 \in P
      PROVE  j \in P
  <2>1. j \in 0 .. n /\ (j - 1 \in S <=> j - 1 \in R)
    BY <1>2
  <2>2. j \in S <=> j \in R
    BY <2>1 DEF Stretchers
  <2> QED BY <2>1, <2>2
<1> HIDE DEF P
<1>3. P = 0 .. n
  BY <1>1, <1>2, UpTo
<1>4. \A j \in 1 .. n : j \in S <=> j \in R
  BY <1>3 DEF P
<1> QED BY <1>4

LEMMA ClassIsWell ==
  ASSUME NEW x \in Lexemes, ~ Malformed(x)
  PROVE  \E g, S : Well(x, g, S) /\ ReadClass(x) = g[Len(x.items)]
<1> DEFINE n == Len(x.items)
<1>1. PICK g : Reading(x, g) /\ ReadClass(x) = g[n]
  BY ClassIsRead
<1>2. ~ g[n].bad /\ ~ g[n].stretch
  BY <1>1 DEF Malformed
<1>3. /\ n \in Nat /\ DOMAIN x.items = 1 .. n /\ \A i \in 1 .. n : x.items[i] \in Items
  BY DEF Lexemes, Items
<1>4. \A i \in 0 .. n : ~ g[i].bad
  BY <1>1, <1>2, NothingIsBad
<1>5. /\ g \in [0 .. n -> Drafts] /\ g[0] = Opened(x)
      /\ \A i \in 1 .. n : g[i] = ReadItem(g[i - 1], x.items[i])
  BY <1>1 DEF Reading
<1> HIDE DEF n
<1>6. \A i \in 1 .. n : i \in 0 .. n /\ i - 1 \in 0 .. n /\ g[i - 1] \in Drafts /\ ItemRead(g[i - 1], x.items[i], g[i])
  <2> TAKE i \in 1 .. n
  <2>1. i \in 0 .. n /\ i - 1 \in 0 .. n
    BY <1>3
  <2>2. g[i - 1] \in Drafts /\ x.items[i] \in Items /\ g[i] = ReadItem(g[i - 1], x.items[i])
    BY <1>3, <1>5, <2>1
  <2> QED BY <2>1, <2>2, ReadItemIs
<1> DEFINE S == {k \in 1 .. n : g[k].stretch}
<1>7. \A i \in 0 .. n : i \in S <=> g[i].stretch
  <2>1. ~ g[0].stretch
    BY <1>5, OpenedIs
  <2>2. \A i \in 0 .. n : i = 0 \/ i \in 1 .. n
    BY <1>3
  <2>3. 0 \notin 1 .. n
    OBVIOUS
  <2> QED BY <2>1, <2>2, <2>3
<1>8. S \in SUBSET (1 .. n) /\ n \notin S
  BY <1>2
<1> HIDE DEF S
<1>9. ASSUME NEW i \in 1 .. n
      PROVE  /\ i \in S <=> x.items[i] = Dash /\ i - 1 \notin S
             /\ i - 1 \in S => /\ i \notin S /\ Len(g[i - 1].spans) >= 1
                               /\ Longer(g[i - 1].spans, g[i].spans, RuneOf(x.items[i]))
             /\ i - 1 \notin S /\ i \in S => g[i].spans = g[i - 1].spans
             /\ i - 1 \notin S /\ i \notin S =>
                   /\ g[i].spans = Append(g[i - 1].spans, <<x.items[i], x.items[i]>>)
                   /\ RuneOf(x.items[i]) = x.items[i]
  <2> DEFINE c == g[i - 1]
             d == g[i]
             item == x.items[i]
  <2>6. /\ i \in S <=> d.stretch
        /\ i - 1 \in S <=> c.stretch
    BY <1>6, <1>7
  <2>1. c \in Drafts /\ ItemRead(c, item, d) /\ ~ c.bad /\ ~ d.bad
    BY <1>4, <1>6
  <2> HIDE DEF c, d, item
  <2>2. c.stretch => Len(c.spans) >= 1
    BY <2>1 DEF Drafts
  <2>3. CASE c.stretch
    <3>1. ~ d.stretch /\ Longer(c.spans, d.spans, RuneOf(item))
      BY <2>1, <2>3 DEF ItemRead
    <3> QED BY <2>6, <2>2, <2>3, <3>1 DEF c, d, item
  <2>4. CASE ~ c.stretch /\ item = Dash
    <3>1. d.spans = c.spans /\ d.stretch
      BY <2>1, <2>4 DEF ItemRead
    <3> QED BY <2>6, <2>4, <3>1 DEF c, d, item
  <2>5. CASE ~ c.stretch /\ item # Dash
    <3>1. d.spans = Append(c.spans, <<item, item>>) /\ ~ d.stretch
      BY <2>1, <2>5 DEF ItemRead
    <3>2. RuneOf(item) = item
      BY <2>5 DEF RuneOf
    <3> QED BY <2>6, <2>5, <3>1, <3>2 DEF c, d, item
  <2> QED BY <2>3, <2>4, <2>5
<1>10. S = Stretching(x.items)
  <2> DEFINE R == Stretching(x.items)
  <2>1. Stretchers(x.items, S) /\ S \in SUBSET (DOMAIN x.items)
    BY <1>3, <1>8, <1>9 DEF Stretchers
  <2>2. R = CHOOSE T \in SUBSET DOMAIN x.items : Stretchers(x.items, T)
    BY DEF Stretching, Stretchers
  <2> HIDE DEF R
  <2>3. R \in SUBSET DOMAIN x.items /\ Stretchers(x.items, R)
    BY <2>1, <2>2
  <2>4. S = R
    BY <1>3, <1>8, <2>1, <2>3, StretchersAreUnique
  <2> QED BY <2>4 DEF R
<1>11. Well(x, g, S)
  BY <1>1, <1>8, <1>9, <1>10 DEF Well, n
<1> QED BY <1>1, <1>11 DEF n

(* A run of items that dashes make one range.                               *)
Alternates(S, k, l) == \A m \in k .. l : m \in S <=> (m - k) % 2 = 1
Run(S, k, l) == k \notin S /\ k - 1 \notin S /\ l \notin S /\ k <= l /\ Alternates(S, k, l)


LEMMA LaterRun ==
  ASSUME NEW S, NEW k \in Int, NEW j \in Int, NEW l \in Int, Run(S, k, l), Run(S, j, l), k < j
  PROVE  FALSE
<1>1. j \in k .. l /\ j - 1 \in k .. l /\ j \notin S /\ j - 1 \notin S
  BY DEF Run
<1>2. (j \in S <=> (j - k) % 2 = 1) /\ (j - 1 \in S <=> (j - 1 - k) % 2 = 1)
  BY <1>1 DEF Run, Alternates
<1> DEFINE a == j - 1 - k
<1>3. a \in Int /\ a + 1 = j - k
  OBVIOUS
<1>4. a % 2 # 1 /\ (a + 1) % 2 # 1
  BY <1>1, <1>2, <1>3
<1> HIDE DEF a
<1> QED BY <1>3, <1>4

LEMMA RunIsUnique ==
  ASSUME NEW S, NEW k \in Int, NEW j \in Int, NEW l \in Int, Run(S, k, l), Run(S, j, l)
  PROVE  k = j
<1>1. ~ (k < j) /\ ~ (j < k)
  BY LaterRun
<1> QED BY <1>1

LEMMA RunGoesOn ==
  ASSUME NEW S, NEW k \in Int, NEW l \in Int, Run(S, k, l), NEW d, d = l + 1, d \in S,
         NEW n, n = d + 1, n \notin S
  PROVE  Run(S, k, n)
<1>1. k <= l /\ k \notin S /\ k - 1 \notin S /\ l \notin S /\ d \in Int /\ n \in Int
  BY DEF Run
<1>2. \A m \in k .. l : m \in S <=> (m - k) % 2 = 1
  BY DEF Run, Alternates
<1> DEFINE a == l - k
<1>3. a % 2 # 1 /\ a \in Int /\ l - k = a /\ d - k = a + 1 /\ n - k = a + 2
  BY <1>1, <1>2
<1> HIDE DEF a
<1>4. (d - k) % 2 = 1 /\ (n - k) % 2 # 1
  BY <1>3
<1>5. ASSUME NEW m \in k .. n
      PROVE  m \in S <=> (m - k) % 2 = 1
  <2>1. m \in k .. l \/ m = d \/ m = n
    BY <1>1
  <2> QED BY <1>2, <1>4, <2>1
<1> QED BY <1>1, <1>5 DEF Run, Alternates

LEMMA RunBegins ==
  ASSUME NEW S, NEW n \in Int, n \notin S, n - 1 \notin S
  PROVE  Run(S, n, n)
<1>1. (n - n) % 2 # 1
  <2>1. n - n = 0
    OBVIOUS
  <2> QED BY <2>1
<1> QED BY <1>1 DEF Run, Alternates

FirstItem(x) == IF x.kind = "nclass" THEN 0 ELSE 1
ItemAt(x, k) == IF k = 0 THEN Newline ELSE RuneOf(x.items[k])

(* y is the span of a run up to the l-th of n items.                        *)
Spanning(x, S, k, l, n, y) ==
    /\ k \in FirstItem(x) .. n /\ l \in FirstItem(x) .. n /\ Run(S, k, l)
    /\ y = <<ItemAt(x, k), ItemAt(x, l)>>

(* The spans are those of the runs: the last one may go on, the others are   *)
(* complete.                                                               *)
SpannedTo(x, S, s, m, n, e) ==
    /\ \A j \in 1 .. m - 1 : \E k, l : Spanning(x, S, k, l, n, s[j]) /\ l + 1 \notin S
    /\ m >= 1 => \E k : Spanning(x, S, k, e, n, s[m])
    /\ \A k, l, y : Spanning(x, S, k, l, n, y) /\ l + 1 \notin S /\ l < e =>
          \E j \in 1 .. m - 1 : s[j] = y
    /\ \A k, y : Spanning(x, S, k, e, n, y) => m >= 1 /\ s[m] = y
Spanned(x, S, s, n, e) == s \in Seq(Pairs) /\ SpannedTo(x, S, s, Len(s), n, e)

LEMMA SpanningMore ==
  ASSUME NEW x, NEW S, NEW k, NEW l, NEW p \in Nat, NEW n, n = p + 1, NEW y
  PROVE  /\ Spanning(x, S, k, l, p, y) => Spanning(x, S, k, l, n, y)
         /\ Spanning(x, S, k, l, n, y) /\ l <= p => Spanning(x, S, k, l, p, y)
<1>1. FirstItem(x) \in Nat
  BY DEF FirstItem
<1>2. Spanning(x, S, k, l, n, y) => k <= l
  BY DEF Spanning, Run
<1> QED BY <1>1, <1>2 DEF Spanning

LEMMA SpansKept ==
  ASSUME NEW x, NEW S, NEW s, NEW p \in Nat, NEW n, n = p + 1, Spanned(x, S, s, p, p)
  PROVE  Spanned(x, S, s, n, p)
<1>1. \A k, l, y : Spanning(x, S, k, l, p, y) => Spanning(x, S, k, l, n, y)
  BY SpanningMore
<1>2. \A k, l, y : Spanning(x, S, k, l, n, y) /\ l < p => Spanning(x, S, k, l, p, y)
  <2> SUFFICES ASSUME NEW k, NEW l, NEW y, Spanning(x, S, k, l, n, y), l < p
               PROVE  Spanning(x, S, k, l, p, y)
    OBVIOUS
  <2>1. l \in Int
    BY DEF Spanning, FirstItem
  <2>2. l <= p
    BY <2>1
  <2> QED BY <2>2, SpanningMore
<1>3. \A k, y : Spanning(x, S, k, p, n, y) => Spanning(x, S, k, p, p, y)
  BY SpanningMore
<1> QED BY <1>1, <1>2, <1>3 DEF Spanned, SpannedTo

LEMMA SpansStretched ==
  ASSUME NEW x, NEW S, NEW s, NEW q, NEW p \in Nat, p = q + 1, NEW n, n = p + 1,
         p \in S, n \notin S, q \in Int, Spanned(x, S, s, q + 1, q), Len(s) >= 1,
         NEW d, Longer(s, d, ItemAt(x, n))
  PROVE  Spanned(x, S, d, n, n)
<1> DEFINE N == Len(s)
<1>1. N \in Nat /\ N >= 1 /\ d \in Seq(Pairs) /\ Len(d) = N
      /\ (\A j \in 1 .. N - 1 : d[j] = s[j]) /\ d[N] = <<s[N][1], ItemAt(x, n)>>
  BY DEF Longer, Spanned
<1>2. /\ \A j \in 1 .. N - 1 : \E k, l : Spanning(x, S, k, l, p, s[j]) /\ l + 1 \notin S
      /\ \E k : Spanning(x, S, k, q, p, s[N])
      /\ \A k, l, y : Spanning(x, S, k, l, p, y) /\ l + 1 \notin S /\ l < q => \E j \in 1 .. N - 1 : s[j] = y
  BY DEF Spanned, SpannedTo
<1> HIDE DEF N
<1>3. \A k, l, y : Spanning(x, S, k, l, p, y) => Spanning(x, S, k, l, n, y)
  BY SpanningMore
<1>4. PICK k0 : Spanning(x, S, k0, q, p, s[N])
  BY <1>2
<1>5. k0 \in Int /\ Run(S, k0, n) /\ Spanning(x, S, k0, n, n, d[N])
  <2>1. /\ k0 \in FirstItem(x) .. p /\ q \in FirstItem(x) .. p /\ Run(S, k0, q)
        /\ s[N] = <<ItemAt(x, k0), ItemAt(x, q)>> /\ FirstItem(x) \in Nat
    BY <1>4 DEF Spanning, FirstItem
  <2>2. Run(S, k0, n)
    BY <2>1, RunGoesOn
  <2>3. d[N] = <<ItemAt(x, k0), ItemAt(x, n)>>
    BY <1>1, <2>1
  <2>4. k0 \in FirstItem(x) .. n /\ n \in FirstItem(x) .. n /\ k0 \in Int
    BY <2>1
  <2> QED BY <2>2, <2>3, <2>4 DEF Spanning
<1>6. ASSUME NEW k, NEW l, NEW y, Spanning(x, S, k, l, n, y), l + 1 \notin S, l < n
      PROVE  \E j \in 1 .. N - 1 : d[j] = y
  <2>1. l \in Int /\ l \notin S
    BY <1>6 DEF Spanning, FirstItem, Run
  <2>2. l # p /\ l # q
    BY <1>6, <2>1
  <2>3. l < q /\ l <= p
    BY <1>6, <2>1, <2>2
  <2>4. Spanning(x, S, k, l, p, y)
    BY <1>6, <2>3, SpanningMore
  <2>5. PICK j \in 1 .. N - 1 : s[j] = y
    BY <1>2, <1>6, <2>3, <2>4
  <2> QED BY <1>1, <2>5
<1>7. ASSUME NEW k, NEW y, Spanning(x, S, k, n, n, y)
      PROVE  d[N] = y
  <2>1. k \in Int /\ Run(S, k, n) /\ n \in Int
    BY <1>7 DEF Spanning, FirstItem
  <2>2. k = k0
    BY <1>5, <2>1, RunIsUnique
  <2> QED BY <1>5, <1>7, <2>2 DEF Spanning
<1>8. \A j \in 1 .. N - 1 : \E k, l : Spanning(x, S, k, l, n, d[j]) /\ l + 1 \notin S
  BY <1>1, <1>2, <1>3
<1>9. \E k : Spanning(x, S, k, n, n, d[N])
  BY <1>5
<1> QED BY <1>1, <1>6, <1>7, <1>8, <1>9 DEF Spanned, SpannedTo

LEMMA SpansAppended ==
  ASSUME NEW x, NEW S, NEW s, NEW p \in Nat, NEW n, n = p + 1,
         p \notin S, n \notin S, Spanned(x, S, s, p, p),
         NEW z, z = <<ItemAt(x, n), ItemAt(x, n)>>, z \in Pairs, NEW d, d = Append(s, z)
  PROVE  Spanned(x, S, d, n, n)
<1> DEFINE N == Len(s)
           M == N + 1
<1>1. N \in Nat /\ d \in Seq(Pairs) /\ Len(d) = M /\ (\A j \in 1 .. N : d[j] = s[j]) /\ d[M] = z
  <2>1. s \in Seq(Pairs)
    BY DEF Spanned, SpannedTo
  <2> QED BY <2>1
<1>2. /\ \A j \in 1 .. N - 1 : \E k, l : Spanning(x, S, k, l, p, s[j]) /\ l + 1 \notin S
      /\ N >= 1 => \E k : Spanning(x, S, k, p, p, s[N])
      /\ \A k, l, y : Spanning(x, S, k, l, p, y) /\ l + 1 \notin S /\ l < p => \E j \in 1 .. N - 1 : s[j] = y
      /\ \A k, y : Spanning(x, S, k, p, p, y) => N >= 1 /\ s[N] = y
  BY DEF Spanned, SpannedTo
<1> HIDE DEF N
<1>0. M \in Nat /\ M - 1 = N /\ M >= 1
  BY <1>1
<1> HIDE DEF M
<1>3. \A k, l, y : Spanning(x, S, k, l, p, y) => Spanning(x, S, k, l, n, y)
  BY SpanningMore
<1>4. n \in Int /\ n - 1 = p /\ p + 1 = n
  OBVIOUS
<1>5. Run(S, n, n) /\ Spanning(x, S, n, n, n, z)
  <2>1. Run(S, n, n)
    BY <1>4, RunBegins
  <2>2. n \in FirstItem(x) .. n
    BY DEF FirstItem
  <2> QED BY <2>1, <2>2 DEF Spanning
<1>6. ASSUME NEW k, NEW l, NEW y, Spanning(x, S, k, l, n, y), l + 1 \notin S, l < n
      PROVE  \E j \in 1 .. N : d[j] = y
  <2>1. l \in Int
    BY <1>6 DEF Spanning, FirstItem
  <2>2. l <= p
    BY <1>6, <2>1
  <2>3. Spanning(x, S, k, l, p, y)
    BY <1>6, <2>2, SpanningMore
  <2>4. CASE l < p
    <3>1. PICK j \in 1 .. N - 1 : s[j] = y
      BY <1>2, <1>6, <2>3, <2>4
    <3>2. j \in 1 .. N
      BY <1>1
    <3> QED BY <1>1, <3>1, <3>2
  <2>5. CASE l = p
    <3>1. N >= 1 /\ s[N] = y
      BY <1>2, <2>3, <2>5
    <3>2. N \in 1 .. N
      BY <1>1, <3>1
    <3> QED BY <1>1, <3>1, <3>2
  <2>6. l < p \/ l = p
    BY <2>1, <2>2
  <2> QED BY <2>4, <2>5, <2>6
<1>7. ASSUME NEW k, NEW y, Spanning(x, S, k, n, n, y)
      PROVE  d[M] = y
  <2>1. k \in Int /\ Run(S, k, n)
    BY <1>7 DEF Spanning, FirstItem
  <2>2. k = n
    BY <1>4, <1>5, <2>1, RunIsUnique
  <2> QED BY <1>1, <1>5, <1>7, <2>2 DEF Spanning
<1>8. ASSUME NEW j \in 1 .. N
      PROVE  \E k, l : Spanning(x, S, k, l, n, d[j]) /\ l + 1 \notin S
  <2>1. CASE j = N
    <3>1. PICK k : Spanning(x, S, k, p, p, s[N])
      BY <1>1, <1>2, <2>1
    <3>2. Spanning(x, S, k, p, n, d[j])
      BY <1>1, <1>3, <2>1, <3>1
    <3> QED BY <1>4, <3>2
  <2>2. CASE j # N
    <3>1. j \in 1 .. N - 1
      BY <1>1, <2>2
    <3> QED BY <1>1, <1>2, <1>3, <3>1
  <2> QED BY <2>1, <2>2
<1>9. \E k : Spanning(x, S, k, n, n, d[M])
  BY <1>1, <1>5
<1>10. 1 .. M - 1 = 1 .. N
  BY <1>0
<1>11. \A j \in 1 .. M - 1 : \E k, l : Spanning(x, S, k, l, n, d[j]) /\ l + 1 \notin S
  BY <1>8, <1>10
<1>12. \A k, l, y : Spanning(x, S, k, l, n, y) /\ l + 1 \notin S /\ l < n =>
          \E j \in 1 .. M - 1 : d[j] = y
  BY <1>6, <1>10
<1>13. d \in Seq(Pairs) /\ Len(d) = M
  BY <1>1
<1>14. SpannedTo(x, S, d, M, n, n)
  BY <1>0, <1>7, <1>9, <1>11, <1>12 DEF SpannedTo
<1> QED BY <1>13, <1>14 DEF Spanned

EndItem(S, i) == IF i \in S THEN i - 1 ELSE i

LEMMA SpansAtFirst ==
  ASSUME NEW x, NEW c, c = Opened(x), NEW S, 0 \notin S, 0 - 1 \notin S
  PROVE  Spanned(x, S, c.spans, 0, 0)
<1>1. /\ c \in Drafts
      /\ c.spans = IF x.kind = "nclass" THEN <<<<Newline, Newline>>>> ELSE <<>>
  BY OpenedIs
<1> DEFINE s == c.spans
<1>2. s \in Seq(Pairs)
  BY <1>1 DEF Drafts
<1>3. ASSUME NEW k, NEW l, NEW y, Spanning(x, S, k, l, 0, y)
      PROVE  x.kind = "nclass" /\ k = 0 /\ l = 0 /\ y = <<Newline, Newline>>
  BY <1>3 DEF Spanning, FirstItem, ItemAt
<1>4. CASE x.kind = "nclass"
  <2> DEFINE z == <<Newline, Newline>>
  <2>1. s = <<z>> /\ Len(<<z>>) = 1 /\ <<z>>[1] = z
    BY <1>1, <1>4
  <2>2. Run(S, 0, 0)
    BY RunBegins
  <2>3. Spanning(x, S, 0, 0, 0, z)
    BY <1>4, <2>2 DEF Spanning, FirstItem, ItemAt
  <2> HIDE DEF s, z
  <2>4. Len(s) = 1 /\ s[1] = z
    BY <2>1
  <2>5. SpannedTo(x, S, s, 1, 0, 0)
    <3>1. \A k, l, y : ~ (Spanning(x, S, k, l, 0, y) /\ l < 0)
      BY <1>3
    <3>2. \A k, y : Spanning(x, S, k, 0, 0, y) => s[1] = y
      BY <1>3, <2>4 DEF z
    <3>3. 1 .. 1 - 1 = {} /\ \E k : Spanning(x, S, k, 0, 0, s[1])
      BY <2>3, <2>4
    <3> QED BY <3>1, <3>2, <3>3 DEF SpannedTo
  <2> QED BY <1>2, <2>4, <2>5 DEF Spanned, s
<1>5. CASE x.kind # "nclass"
  <2>1. Len(s) = 0
    BY <1>1, <1>5
  <2> HIDE DEF s
  <2>2. SpannedTo(x, S, s, 0, 0, 0)
    <3>1. \A k, l, y : ~ Spanning(x, S, k, l, 0, y)
      BY <1>3, <1>5
    <3>2. 1 .. 0 - 1 = {} /\ ~ (0 >= 1)
      OBVIOUS
    <3> QED BY <3>1, <3>2 DEF SpannedTo
  <2> QED BY <1>2, <2>1, <2>2 DEF Spanned, s
<1> QED BY <1>4, <1>5

LEMMA SpansAreRead ==
  ASSUME NEW x \in Lexemes, NEW g, NEW S, Well(x, g, S), NEW n, n = Len(x.items)
  PROVE  Spanned(x, S, g[n].spans, n, n)
<1>1. /\ n \in Nat /\ \A i \in 1 .. n : x.items[i] \in Items
  BY DEF Lexemes, Items
<1>2. /\ g[0] = Opened(x) /\ S \in SUBSET (1 .. n) /\ n \notin S
  BY DEF Well, Reading
<1>3. 0 \notin S /\ 0 - 1 \notin S
  BY <1>2
<1> DEFINE P == {i \in 0 .. n : Spanned(x, S, g[i].spans, i, EndItem(S, i))}
<1>4. 0 \in P /\ P \in SUBSET (0 .. n)
  <2>1. EndItem(S, 0) = 0 /\ 0 \in 0 .. n
    BY <1>1, <1>3 DEF EndItem
  <2>2. Spanned(x, S, g[0].spans, 0, 0)
    BY <1>2, <1>3, SpansAtFirst
  <2> QED BY <2>1, <2>2
<1>5. ASSUME NEW i \in 1 .. n, i - 1 \in P
      PROVE  i \in P
  <2> DEFINE p == i - 1
             s == g[p].spans
             d == g[i].spans
             item == x.items[i]
  <2>1. p \in Nat /\ i = p + 1 /\ i \in Nat /\ i \in 0 .. n /\ item \in Items
    BY <1>1
  <2>2. Spanned(x, S, s, p, EndItem(S, p))
    BY <1>5
  <2>3. /\ p \in S => i \notin S /\ Len(s) >= 1 /\ Longer(s, d, RuneOf(item))
        /\ p \notin S /\ i \in S => d = s
        /\ p \notin S /\ i \notin S => d = Append(s, <<item, item>>) /\ RuneOf(item) = item
    BY DEF Well
  <2>4. ItemAt(x, i) = RuneOf(item)
    BY <2>1 DEF ItemAt
  <2> HIDE DEF p, s, d, item, P
  <2>5. Spanned(x, S, d, i, EndItem(S, i))
    <3>1. CASE p \in S
      <4> DEFINE q == p - 1
      <4>1. p = q + 1 /\ q \in Int /\ EndItem(S, p) = q /\ EndItem(S, i) = i
        BY <2>1, <2>3, <3>1 DEF EndItem
      <4>2. i \notin S /\ Len(s) >= 1 /\ Longer(s, d, ItemAt(x, i))
        BY <2>3, <2>4, <3>1
      <4> HIDE DEF q
      <4>3. Spanned(x, S, s, q + 1, q)
        BY <2>2, <4>1
      <4>4. Spanned(x, S, d, i, i)
        BY <2>1, <3>1, <4>1, <4>2, <4>3, SpansStretched
      <4> QED BY <4>1, <4>4
    <3>2. CASE p \notin S /\ i \in S
      <4>1. EndItem(S, p) = p /\ EndItem(S, i) = p /\ d = s
        BY <2>1, <2>3, <3>2 DEF EndItem
      <4> QED BY <2>1, <2>2, <4>1, SpansKept
    <3>3. CASE p \notin S /\ i \notin S
      <4> DEFINE z == <<ItemAt(x, i), ItemAt(x, i)>>
      <4>1. EndItem(S, p) = p /\ EndItem(S, i) = i
        BY <3>3 DEF EndItem
      <4>2. d = Append(s, z)
        BY <2>3, <2>4, <3>3
      <4>3. z \in Pairs /\ z = <<ItemAt(x, i), ItemAt(x, i)>>
        BY <2>1, <2>3, <2>4, <3>3 DEF Pairs, Items, Dash
      <4> HIDE DEF z
      <4>4. Spanned(x, S, s, p, p)
        BY <2>2, <4>1
      <4>5. Spanned(x, S, d, i, i)
        BY <2>1, <3>3, <4>2, <4>3, <4>4, SpansAppended
      <4> QED BY <4>1, <4>5
    <3> QED BY <3>1, <3>2, <3>3
  <2> QED BY <2>1, <2>5 DEF P, d
<1> HIDE DEF P
<1>6. P = 0 .. n
  BY <1>1, <1>4, <1>5, UpTo
<1>7. n \in P /\ EndItem(S, n) = n
  BY <1>1, <1>2, <1>6 DEF EndItem
<1> QED BY <1>7 DEF P

(* What is read of a class has the runes that are in it.                    *)
LEMMA SpansMean ==
  ASSUME NEW x \in Lexemes, NEW g, NEW S, Well(x, g, S), NEW n, n = Len(x.items), NEW r \in Nat
  PROVE  Within(g[n].spans, r) <=> InClass(x, r)
<1> DEFINE s == g[n].spans
           f == FirstItem(x)
           m == Len(s)
<1>1. Spanned(x, S, s, n, n)
  BY SpansAreRead
<1>2. S = Stretching(x.items) /\ S \in SUBSET (1 .. n) /\ n \in Nat
  BY DEF Well, Lexemes
<1>3. InClass(x, r) <=> \E k, l \in f .. n : /\ Run(S, k, l) /\ l + 1 \notin S
                                             /\ ItemAt(x, k) <= r /\ r <= ItemAt(x, l)
  BY <1>2 DEF InClass, FirstItem, ItemAt, Run, Alternates
<1> HIDE DEF s
<1>4. s \in Seq(Pairs) /\ m \in Nat /\ DOMAIN s = 1 .. m
  BY <1>1 DEF Spanned
<1> HIDE DEF m, f
<1>5. SpannedTo(x, S, s, m, n, n)
  BY <1>1 DEF Spanned, m
<1>6. n + 1 \notin S
  BY <1>2
<1>7. ASSUME NEW j \in 1 .. m
      PROVE  \E k, l : Spanning(x, S, k, l, n, s[j]) /\ l + 1 \notin S
  <2>1. CASE j = m
    BY <1>4, <1>5, <1>6, <2>1 DEF SpannedTo
  <2>2. CASE j # m
    <3>1. j \in 1 .. m - 1
      BY <1>4, <2>2
    <3> QED BY <1>5, <3>1 DEF SpannedTo
  <2> QED BY <2>1, <2>2
<1>8. ASSUME Within(s, r)
      PROVE  InClass(x, r)
  <2>1. PICK j \in 1 .. m : s[j][1] <= r /\ r <= s[j][2]
    BY <1>4, <1>8 DEF Within
  <2>2. PICK k, l : Spanning(x, S, k, l, n, s[j]) /\ l + 1 \notin S
    BY <1>7
  <2>3. /\ k \in f .. n /\ l \in f .. n /\ Run(S, k, l)
        /\ s[j] = <<ItemAt(x, k), ItemAt(x, l)>>
    BY <2>2 DEF Spanning, f
  <2>4. ItemAt(x, k) <= r /\ r <= ItemAt(x, l)
    BY <2>1, <2>3
  <2> QED BY <1>3, <2>2, <2>3, <2>4
<1>9. ASSUME InClass(x, r)
      PROVE  Within(s, r)
  <2>1. PICK k \in f .. n, l \in f .. n : /\ Run(S, k, l) /\ l + 1 \notin S
                                          /\ ItemAt(x, k) <= r /\ r <= ItemAt(x, l)
    BY <1>3, <1>9
  <2> DEFINE y == <<ItemAt(x, k), ItemAt(x, l)>>
  <2>2. Spanning(x, S, k, l, n, y)
    BY <2>1 DEF Spanning, f
  <2>3. \E j \in 1 .. m : s[j] = y
    <3> HIDE DEF y
    <3>1. CASE l = n
      <4>1. m >= 1 /\ s[m] = y
        BY <1>5, <2>2, <3>1 DEF SpannedTo
      <4>2. m \in 1 .. m
        BY <1>4, <4>1
      <4> QED BY <4>1, <4>2
    <3>2. CASE l # n
      <4>1. l < n
        BY <1>2, <2>2, <3>2 DEF Spanning, FirstItem
      <4>2. PICK j \in 1 .. m - 1 : s[j] = y
        BY <1>5, <2>1, <2>2, <4>1 DEF SpannedTo
      <4>3. j \in 1 .. m
        BY <1>4
      <4> QED BY <4>2, <4>3
    <3> QED BY <3>1, <3>2
  <2>4. PICK j \in 1 .. m : s[j] = y
    BY <2>3
  <2>5. s[j][1] = ItemAt(x, k) /\ s[j][2] = ItemAt(x, l)
    BY <2>4
  <2> QED BY <1>4, <2>1, <2>5 DEF Within
<1> QED BY <1>8, <1>9 DEF s

(* The first n spans in order of their starts.                              *)
Ordered(s, n, w) ==
    /\ w \in [1 .. n -> Pairs]
    /\ \A i, j \in 1 .. n : i <= j => w[i][1] <= w[j][1]
    /\ \A i \in 1 .. n : \E j \in 1 .. n : w[i] = s[j]
    /\ \A j \in 1 .. n : \E i \in 1 .. n : w[i] = s[j]

(* Where the span v has its place.                                         *)
PlaceOf(w, n, v, p) ==
    /\ p \in 1 .. n + 1
    /\ \A i \in 1 .. p - 1 : w[i][1] <= v[1]
    /\ \A i \in p .. n : v[1] <= w[i][1]

LEMMA PlaceExists ==
  ASSUME NEW s, NEW n \in Nat, NEW w, Ordered(s, n, w), NEW v \in Pairs
  PROVE  \E p : PlaceOf(w, n, v, p)
<1> DEFINE T == {i \in 1 .. n : v[1] <= w[i][1]} \cup {n + 1}
<1>1. T \in SUBSET Nat /\ T # {}
  OBVIOUS
<1>2. \A i \in 1 .. n : w[i] \in Pairs /\ w[i][1] \in Int /\ v[1] \in Int
  BY DEF Ordered, Pairs
<1>3. \A i \in T : i = n + 1 \/ (i \in 1 .. n /\ v[1] <= w[i][1])
  OBVIOUS
<1>4. \A i \in 1 .. n : i \notin T => ~ (v[1] <= w[i][1])
  OBVIOUS
<1> HIDE DEF T
<1>5. PICK p \in T : \A k \in T : p <= k
  BY <1>1, LeastNumber
<1>6. p \in 1 .. n + 1
  BY <1>3
<1>7. ASSUME NEW i \in 1 .. p - 1
      PROVE  w[i][1] <= v[1]
  <2>1. i \in 1 .. n /\ ~ (p <= i)
    BY <1>6
  <2>2. ~ (v[1] <= w[i][1])
    BY <1>4, <1>5, <2>1
  <2> QED BY <1>2, <2>1, <2>2
<1>8. ASSUME NEW i \in p .. n
      PROVE  v[1] <= w[i][1]
  <2>1. p \in 1 .. n /\ i \in 1 .. n /\ p <= i
    BY <1>6
  <2>2. v[1] <= w[p][1] /\ w[p][1] <= w[i][1]
    BY <1>3, <2>1 DEF Ordered
  <2> QED BY <1>2, <2>1, <2>2
<1> QED BY <1>6, <1>7, <1>8 DEF PlaceOf

LEMMA SpanInserted ==
  ASSUME NEW s, NEW m \in Nat, NEW w, Ordered(s, m, w), NEW n, n = m + 1, s[n] \in Pairs
  PROVE  \E u : Ordered(s, n, u)
<1>1. PICK p : PlaceOf(w, m, s[n], p)
  BY PlaceExists
<1> DEFINE v == s[n]
           u == [i \in 1 .. n |-> IF i < p THEN w[i] ELSE IF i = p THEN v ELSE w[i - 1]]
<1>2. /\ p \in 1 .. n /\ v \in Pairs /\ w \in [1 .. m -> Pairs]
      /\ \A i \in 1 .. p - 1 : w[i][1] <= v[1]
      /\ \A i \in p .. m : v[1] <= w[i][1]
  BY <1>1 DEF PlaceOf, Ordered
<1>3. /\ \A i, j \in 1 .. m : i <= j => w[i][1] <= w[j][1]
      /\ \A i \in 1 .. m : \E j \in 1 .. m : w[i] = s[j]
      /\ \A j \in 1 .. m : \E i \in 1 .. m : w[i] = s[j]
  BY DEF Ordered
<1>4. v = s[n]
  OBVIOUS
<1> HIDE DEF v
<1>5. \A i \in 1 .. n : /\ i < p => i \in 1 .. m /\ i \in 1 .. p - 1 /\ u[i] = w[i]
                        /\ i = p => u[i] = v
                        /\ p < i => i - 1 \in 1 .. m /\ i - 1 \in p .. m /\ u[i] = w[i - 1]
  BY <1>2
<1>6. u \in [1 .. n -> Pairs]
  <2>1. \A i \in 1 .. n : u[i] \in Pairs
    <3> TAKE i \in 1 .. n
    <3>1. i < p \/ i = p \/ p < i
      BY <1>2
    <3> QED BY <1>2, <1>5, <3>1
  <2>2. u = [i \in 1 .. n |-> u[i]]
    OBVIOUS
  <2> HIDE DEF u
  <2> QED BY <2>1, <2>2
<1> HIDE DEF u
<1>7. ASSUME NEW i \in 1 .. n, NEW j \in 1 .. n, i <= j
      PROVE  u[i][1] <= u[j][1]
  <2>1. \A k \in 1 .. m : w[k][1] \in Int
    BY <1>2 DEF Pairs
  <2>2. v[1] \in Int
    BY <1>2 DEF Pairs
  <2>3. CASE i < p /\ j < p
    BY <1>3, <1>5, <1>7, <2>3
  <2>4. CASE i < p /\ j = p
    BY <1>2, <1>5, <2>4
  <2>5. CASE i < p /\ p < j
    <3>2. i \in Int /\ j \in Int /\ p \in Int /\ i < p /\ p < j
      BY <1>2, <2>5
    <3>3. i <= j - 1
      BY <3>2
    <3>1. /\ i \in 1 .. m /\ j - 1 \in 1 .. m /\ i <= j - 1 /\ u[i] = w[i] /\ u[j] = w[j - 1]
      BY <1>5, <2>5, <3>3
    <3> QED BY <1>3, <3>1
  <2>6. CASE i = p /\ j = p
    BY <1>5, <2>2, <2>6
  <2>7. CASE i = p /\ p < j
    BY <1>2, <1>5, <2>7
  <2>8. CASE p < i /\ p < j
    <3>1. /\ i - 1 \in 1 .. m /\ j - 1 \in 1 .. m /\ i - 1 <= j - 1 /\ u[i] = w[i - 1] /\ u[j] = w[j - 1]
      BY <1>2, <1>5, <1>7, <2>8
    <3> QED BY <1>3, <3>1
  <2>9. \/ i < p /\ j < p
        \/ i < p /\ j = p
        \/ i < p /\ p < j
        \/ i = p /\ j = p
        \/ i = p /\ p < j
        \/ p < i /\ p < j
    <3>1. i \in Int /\ j \in Int /\ p \in Int
      BY <1>2
    <3> QED BY <1>7, <3>1
  <2> QED BY <2>3, <2>4, <2>5, <2>6, <2>7, <2>8, <2>9
<1>8. \A j \in 1 .. m : j \in 1 .. n
  OBVIOUS
<1>9. ASSUME NEW i \in 1 .. n
      PROVE  \E j \in 1 .. n : u[i] = s[j]
  <2>1. i < p \/ i = p \/ p < i
    BY <1>2
  <2>2. n \in 1 .. n
    OBVIOUS
  <2>3. CASE i < p
    <3>1. i \in 1 .. m /\ u[i] = w[i]
      BY <1>5, <2>3
    <3> QED BY <1>3, <1>8, <3>1
  <2>4. CASE i = p
    BY <1>4, <1>5, <2>2, <2>4
  <2>5. CASE p < i
    <3> DEFINE k == i - 1
    <3>1. k \in 1 .. m /\ u[i] = w[k]
      BY <1>5, <2>5
    <3> HIDE DEF k
    <3> QED BY <1>3, <1>8, <3>1
  <2> QED BY <2>1, <2>3, <2>4, <2>5
<1>10. ASSUME NEW j \in 1 .. n
       PROVE  \E i \in 1 .. n : u[i] = s[j]
  <2>1. CASE j = n
    BY <1>2, <1>4, <1>5, <2>1
  <2>2. CASE j # n
    <3>1. j \in 1 .. m
      BY <2>2
    <3>2. PICK k \in 1 .. m : w[k] = s[j]
      BY <1>3, <3>1
    <3>3. CASE k < p
      BY <1>5, <1>8, <3>2, <3>3
    <3>4. CASE ~ (k < p)
      <4> DEFINE i == k + 1
      <4>1. i \in 1 .. n /\ p < i /\ i - 1 = k
        BY <1>2, <3>4
      <4> HIDE DEF i
      <4>2. u[i] = w[k]
        BY <1>5, <4>1
      <4> QED BY <3>2, <4>1, <4>2
    <3> QED BY <3>3, <3>4
  <2> QED BY <2>1, <2>2
<1>11. Ordered(s, n, u)
  BY <1>6, <1>7, <1>9, <1>10 DEF Ordered
<1> QED BY <1>11

LEMMA OrderExists ==
  ASSUME NEW s \in Seq(Pairs), NEW n, n = Len(s)
  PROVE  \E w : Ordered(s, n, w)
<1> DEFINE P == {m \in 0 .. n : \E w : Ordered(s, m, w)}
<1>1. n \in Nat /\ \A m \in 1 .. n : s[m] \in Pairs
  OBVIOUS
<1>2. 0 \in P /\ P \in SUBSET (0 .. n)
  <2> DEFINE w == [i \in 1 .. 0 |-> <<0, 0>>]
  <2>1. w \in [1 .. 0 -> Pairs] /\ 1 .. 0 = {}
    OBVIOUS
  <2> HIDE DEF w
  <2>2. Ordered(s, 0, w)
    BY <2>1 DEF Ordered
  <2>3. 0 \in 0 .. n
    BY <1>1
  <2> QED BY <2>2, <2>3
<1>3. \A m \in 1 .. n : m - 1 \in P => m \in P
  <2> SUFFICES ASSUME NEW m \in 1 .. n, \E w : Ordered(s, m - 1, w)
               PROVE  \E u : Ordered(s, m, u)
    OBVIOUS
  <2> DEFINE l == m - 1
  <2>1. l \in Nat /\ m = l + 1 /\ s[m] \in Pairs /\ \E w : Ordered(s, l, w)
    BY <1>1
  <2> HIDE DEF l
  <2> QED BY <2>1, SpanInserted
<1> HIDE DEF P
<1>4. P = 0 .. n
  BY <1>1, <1>2, <1>3, UpTo
<1>5. n \in P
  BY <1>1, <1>4
<1> QED BY <1>5 DEF P

(* The spans in order are as many, and the same ones.                       *)
SortedLike(s, w) ==
    /\ w \in Seq(Pairs) /\ Len(w) = Len(s)
    /\ \A i, j \in 1 .. Len(w) : i < j => w[i][1] <= w[j][1]
    /\ ToSet(w) = ToSet(s)

LEMMA SortedIs ==
  ASSUME NEW s \in Seq(Pairs)
  PROVE  SortedLike(s, Sorted(s))
<1> DEFINE n == Len(s)
           W == [1 .. n -> ToSet(s)]
           Good2(w) == InOrder(w) /\ ToSet(w) = ToSet(s)
           v == CHOOSE w \in W : Good2(w)
<1>1. n \in Nat /\ DOMAIN s = 1 .. n /\ n = Len(s)
  OBVIOUS
<1>2. Sorted(s) = v
  BY DEF Sorted
<1>3. ToSet(s) \in SUBSET Pairs
  BY DEF ToSet
<1> HIDE DEF n
<1>4. \E w \in W : Good2(w)
  <2>1. PICK w : Ordered(s, n, w)
    BY <1>1, OrderExists
  <2>2. /\ w \in [1 .. n -> Pairs] /\ DOMAIN w = 1 .. n
        /\ \A i, j \in 1 .. n : i <= j => w[i][1] <= w[j][1]
        /\ \A i \in 1 .. n : \E j \in 1 .. n : w[i] = s[j]
        /\ \A j \in 1 .. n : \E i \in 1 .. n : w[i] = s[j]
    BY <2>1 DEF Ordered
  <2>3. ToSet(w) = ToSet(s)
    <3>1. ToSet(w) = {w[i] : i \in 1 .. n} /\ ToSet(s) = {s[i] : i \in 1 .. n}
      BY <1>1, <2>2 DEF ToSet
    <3>2. ASSUME NEW e \in ToSet(w) PROVE e \in ToSet(s)
      <4>1. PICK i \in 1 .. n : e = w[i]
        BY <3>1
      <4>2. PICK j \in 1 .. n : w[i] = s[j]
        BY <2>2
      <4> QED BY <3>1, <4>1, <4>2
    <3>3. ASSUME NEW e \in ToSet(s) PROVE e \in ToSet(w)
      <4>1. PICK j \in 1 .. n : e = s[j]
        BY <3>1
      <4>2. PICK i \in 1 .. n : w[i] = s[j]
        BY <2>2
      <4> QED BY <3>1, <4>1, <4>2
    <3> QED BY <3>2, <3>3
  <2>4. \A i \in 1 .. n : w[i] \in ToSet(s)
    BY <1>1, <2>2 DEF ToSet
  <2>5. w \in W
    BY <2>2, <2>4
  <2>6. InOrder(w)
    <3>1. \A i, j \in 1 .. n : i < j => i <= j
      BY <1>1
    <3> QED BY <2>2, <3>1 DEF InOrder
  <2> QED BY <2>3, <2>5, <2>6
<1>5. v \in W /\ InOrder(v) /\ ToSet(v) = ToSet(s)
  <2> HIDE DEF W
  <2>1. v \in W /\ Good2(v)
    <3> HIDE DEF Good2
    <3> QED BY <1>4
  <2> QED BY <2>1
<1> HIDE DEF v, Good2
<1>6. v \in [1 .. n -> Pairs]
  <2>1. \A i \in 1 .. n : v[i] \in Pairs
    BY <1>3, <1>5
  <2> QED BY <1>5, <2>1
<1>7. v \in Seq(Pairs) /\ Len(v) = n /\ DOMAIN v = 1 .. n
  BY <1>1, <1>6
<1>8. \A i, j \in 1 .. n : i < j => v[i][1] <= v[j][1]
  BY <1>5, <1>7 DEF InOrder
<1>9. SortedLike(s, v)
  BY <1>1, <1>5, <1>7, <1>8 DEF SortedLike
<1> QED BY <1>2, <1>9

(* What has been merged covers what the first n spans cover.                *)
Covering(s, n, m) ==
    /\ m \in Seq(Pairs)
    /\ \A r \in Nat : Within(m, r) <=> \E i \in 1 .. n : s[i][1] <= r /\ r <= s[i][2]
    /\ n = 0 => m = <<>>
    /\ n >= 1 => Len(m) >= 1 /\ m[Len(m)][1] <= s[n][1]

(* One span more.                                                          *)
LEMMA MergeCovers ==
  ASSUME NEW s \in Seq(Pairs), NEW n \in Nat, NEW m, Covering(s, n, m), NEW l, l = n + 1,
         l \in 1 .. Len(s), NEW d, d = Merge(m, s[l]),
         \A i, j \in 1 .. Len(s) : i < j => s[i][1] <= s[j][1]
  PROVE  Covering(s, l, d)
<1> DEFINE y == s[l]
           k == Len(m)
           z == m[k]
<1>1. /\ m \in Seq(Pairs) /\ k \in Nat /\ DOMAIN m = 1 .. k
      /\ \A r \in Nat : Within(m, r) <=> \E i \in 1 .. n : s[i][1] <= r /\ r <= s[i][2]
      /\ n >= 1 => k >= 1 /\ z[1] <= s[n][1]
      /\ m = <<>> <=> k = 0
      /\ n = 0 => k = 0
  <2>1. m \in Seq(Pairs)
    BY DEF Covering
  <2> QED BY <2>1, EmptySeq DEF Covering
<1>2. y \in Pairs /\ y[1] \in Int /\ y[2] \in Int /\ y = s[l]
  BY DEF Pairs
<1>3. d = IF k = 0 \/ y[1] > z[2] THEN Append(m, y)
          ELSE IF y[2] > z[2] THEN [m EXCEPT ![k][2] = y[2]] ELSE m
  BY <1>1 DEF Merge, Last
<1>4. \A r \in Nat : (\E i \in 1 .. l : s[i][1] <= r /\ r <= s[i][2])
                     <=> Within(m, r) \/ (y[1] <= r /\ r <= y[2])
  <2>1. \A i \in 1 .. l : i \in 1 .. n \/ i = l
    OBVIOUS
  <2>2. l \in 1 .. l /\ \A i \in 1 .. n : i \in 1 .. l
    OBVIOUS
  <2> QED BY <1>1, <1>2, <2>1, <2>2
<1> HIDE DEF y, k, z
<1>5. CASE k = 0 \/ y[1] > z[2]
  <2>1. d = Append(m, y)
    BY <1>3, <1>5
  <2>2. /\ d \in Seq(Pairs) /\ Len(d) = k + 1 /\ DOMAIN d = 1 .. k + 1 /\ d[k + 1] = y
        /\ \A i \in 1 .. k : d[i] = m[i]
    BY <1>1, <1>2, <2>1 DEF k
  <2>3. k + 1 >= 1 /\ k + 1 \in 1 .. k + 1
    BY <1>1
  <2>4. ASSUME NEW r \in Nat
        PROVE  Within(d, r) <=> Within(m, r) \/ (y[1] <= r /\ r <= y[2])
    <3>1. \A i \in 1 .. k + 1 : i \in 1 .. k \/ i = k + 1
      BY <1>1
    <3>2. \A i \in 1 .. k : i \in 1 .. k + 1
      BY <1>1
    <3> QED BY <1>1, <2>2, <2>3, <3>1, <3>2 DEF Within
  <2>5. d[Len(d)][1] <= s[l][1] /\ Len(d) >= 1 /\ l # 0
    BY <1>2, <2>2, <2>3
  <2> QED BY <1>4, <2>2, <2>4, <2>5 DEF Covering
<1>6. CASE ~ (k = 0 \/ y[1] > z[2])
  <2>1. k \in 1 .. k /\ k >= 1 /\ z \in Pairs /\ z[1] \in Int /\ z[2] \in Int /\ z = m[k]
    <3>1. k \in 1 .. k /\ k >= 1
      BY <1>1, <1>6
    <3>2. z \in Pairs /\ z = m[k]
      BY <1>1, <3>1 DEF z, k
    <3> QED BY <3>1, <3>2 DEF Pairs
  <2>2. y[1] <= z[2]
    BY <1>2, <1>6, <2>1
  <2>3. n >= 1
    BY <1>1, <1>6
  <2>4. z[1] <= y[1]
    <3>1. n \in 1 .. Len(s) /\ n < l
      BY <2>3
    <3>2. s[n][1] <= y[1]
      BY <1>2, <3>1
    <3>3. s[n] \in Pairs /\ s[n][1] \in Int
      BY <3>1 DEF Pairs
    <3> QED BY <1>1, <1>2, <2>1, <2>3, <3>2, <3>3, SMTT(30)
  <2>5. CASE y[2] > z[2]
    <3>1. d = [m EXCEPT ![k][2] = y[2]]
      BY <1>3, <1>6, <2>5
    <3>2. Longer(m, d, y[2])
      BY <1>1, <1>2, <2>1, <3>1, LastIsStretched DEF k
    <3>3. /\ d \in Seq(Pairs) /\ Len(d) = k /\ DOMAIN d = 1 .. k
          /\ \A i \in 1 .. k - 1 : d[i] = m[i]
          /\ d[k] = <<z[1], y[2]>>
      BY <1>1, <3>2 DEF Longer, k, z
    <3>4. d[k][1] = z[1] /\ d[k][2] = y[2]
      BY <3>3
    <3>5. ASSUME NEW r \in Nat
          PROVE  Within(d, r) <=> Within(m, r) \/ (y[1] <= r /\ r <= y[2])
      <4>1. z[1] <= r /\ r <= y[2] <=> (z[1] <= r /\ r <= z[2]) \/ (y[1] <= r /\ r <= y[2])
        BY <1>2, <2>1, <2>2, <2>4, <2>5
      <4>2. \A i \in 1 .. k : i \in 1 .. k - 1 \/ i = k
        BY <1>1
      <4>3. \A i \in 1 .. k - 1 : i \in 1 .. k
        BY <1>1
      <4>4. Within(d, r) <=> (\E i \in 1 .. k - 1 : m[i][1] <= r /\ r <= m[i][2])
                             \/ (z[1] <= r /\ r <= y[2])
        <5>1. Within(d, r) <=> \E i \in 1 .. k : d[i][1] <= r /\ r <= d[i][2]
          BY <3>3 DEF Within
        <5>2. k \in 1 .. k
          BY <2>1, <1>1
        <5>3. (\E i \in 1 .. k : d[i][1] <= r /\ r <= d[i][2]) <=>
                 (\E i \in 1 .. k - 1 : d[i][1] <= r /\ r <= d[i][2])
                 \/ (d[k][1] <= r /\ r <= d[k][2])
          BY ONLY <4>2, <4>3, <5>2
        <5>4. (\E i \in 1 .. k - 1 : d[i][1] <= r /\ r <= d[i][2]) <=>
                 (\E i \in 1 .. k - 1 : m[i][1] <= r /\ r <= m[i][2])
          BY <3>3
        <5> QED BY <3>4, <5>1, <5>3, <5>4
      <4>5. Within(m, r) <=> (\E i \in 1 .. k - 1 : m[i][1] <= r /\ r <= m[i][2])
                             \/ (z[1] <= r /\ r <= z[2])
        <5>1. DOMAIN m = 1 .. k /\ m[k] = z /\ k \in 1 .. k
          BY <1>1, <2>1 DEF k
        <5> QED BY <5>1, <4>2, <4>3, Zenon DEF Within
      <4> QED BY <4>1, <4>4, <4>5
    <3>6. d[Len(d)][1] <= s[l][1] /\ Len(d) >= 1 /\ l # 0
      BY <1>2, <2>1, <2>4, <3>3, <3>4
    <3> QED BY <1>4, <3>3, <3>5, <3>6 DEF Covering
  <2>6. CASE ~ (y[2] > z[2])
    <3>1. d = m
      BY <1>3, <1>6, <2>6
    <3>2. ASSUME NEW r \in Nat, y[1] <= r, r <= y[2]
          PROVE  Within(m, r)
      <4>0. y[2] <= z[2] /\ y[1] \in Int /\ y[2] \in Int /\ z[1] \in Int /\ z[2] \in Int
        BY <1>2, <2>1, <2>6
      <4>1. z[1] <= r /\ r <= z[2]
        BY ONLY <2>4, <4>0, <3>2, r \in Nat
      <4> QED BY <1>1, <2>1, <4>1 DEF Within
    <3>3. m[Len(m)][1] <= s[l][1] /\ Len(m) >= 1 /\ l # 0
      BY <1>2, <2>1, <2>4 DEF k
    <3> QED BY <1>1, <1>4, <3>1, <3>2, <3>3 DEF Covering
  <2> QED BY <2>5, <2>6
<1> QED BY <1>5, <1>6

LEMMA MergeTyped ==
  ASSUME NEW m \in Seq(Pairs), NEW y \in Pairs
  PROVE  Merge(m, y) \in Seq(Pairs)
<1> DEFINE d == Merge(m, y)
<1>1. y[1] \in Int /\ y[2] \in Int /\ Len(m) \in Nat
  BY DEF Pairs
<1>2. CASE d = Append(m, y) \/ d = m
  BY <1>2
<1>3. CASE ~ (d = Append(m, y) \/ d = m)
  <2>1. m # <<>> /\ d = [m EXCEPT ![Len(m)][2] = y[2]]
    BY <1>3 DEF Merge
  <2>2. Len(m) >= 1
    BY <1>1, <2>1, EmptySeq
  <2> HIDE DEF d
  <2>3. Longer(m, d, y[2])
    BY <1>1, <2>1, <2>2, LastIsStretched
  <2> QED BY <2>3 DEF Longer, d
<1> QED BY <1>2, <1>3

(* Merging spans that are in order changes nothing of what they cover.      *)
LEMMA MergedIs ==
  ASSUME NEW s \in Seq(Pairs), \A i, j \in 1 .. Len(s) : i < j => s[i][1] <= s[j][1]
  PROVE  Covering(s, Len(s), Merged(s))
<1> DEFINE n == Len(s)
           V == Seq(Pairs)
           F == [i \in 1 .. n |-> [c \in V |-> Merge(c, s[i])]]
           Is(f) == f = [i \in 0 .. n |-> IF i = 0 THEN <<>> ELSE Merge(f[i - 1], s[i])]
           upto == CHOOSE f : Is(f)
<1>1. n \in Nat /\ n = Len(s) /\ \A i \in 1 .. n : s[i] \in Pairs
  OBVIOUS
<1>2. <<>> \in V
  OBVIOUS
<1>3. Merged(s) = upto[n]
  BY DEF Merged
<1> HIDE DEF n
<1>4. \A i \in 1 .. n : F[i] \in [V -> V]
  <2> SUFFICES ASSUME NEW i \in 1 .. n PROVE F[i] \in [V -> V]
    OBVIOUS
  <2>1. \A c \in V : Merge(c, s[i]) \in V
    BY <1>1, MergeTyped
  <2>2. F[i] = [c \in V |-> Merge(c, s[i])]
    OBVIOUS
  <2> HIDE DEF V, F
  <2> QED BY <2>1, <2>2
<1> HIDE DEF V
<1>5. PICK g \in [0 .. n -> V] : ByRecursion(g, F, <<>>, n)
  <2> HIDE DEF F
  <2> QED BY <1>1, <1>2, <1>4, RecursionExists
<1>6. g[0] = <<>> /\ \A i \in 1 .. n : i - 1 \in 0 .. n /\ g[i] = Merge(g[i - 1], s[i])
  <2>1. \A i \in 1 .. n : i - 1 \in 0 .. n
    BY <1>1
  <2>2. \A i \in 1 .. n : g[i - 1] \in V
    BY <1>5, <2>1
  <2> QED BY <1>5, <2>1, <2>2 DEF ByRecursion
<1>7. Is(g)
  <2>1. \A i \in 0 .. n : g[i] = IF i = 0 THEN <<>> ELSE Merge(g[i - 1], s[i])
    BY <1>1, <1>6
  <2> QED BY <1>5, <2>1
<1>8. Is(upto)
  <2> HIDE DEF Is
  <2> QED BY <1>7
<1>9. upto[0] = <<>> /\ \A i \in 1 .. n : upto[i] = Merge(upto[i - 1], s[i])
  <2>1. \A i \in 0 .. n : upto[i] = IF i = 0 THEN <<>> ELSE Merge(upto[i - 1], s[i])
    BY <1>8
  <2> HIDE DEF upto
  <2> QED BY <1>1, <2>1
<1> HIDE DEF upto, Is, F
<1> DEFINE P == {i \in 0 .. n : Covering(s, i, upto[i])}
<1>10. 0 \in P /\ P \in SUBSET (0 .. n)
  <2>1. \A r \in Nat : ~ Within(<<>>, r)
    BY DEF Within
  <2>2. Covering(s, 0, <<>>)
    <3>1. <<>> \in Seq(Pairs) /\ 1 .. 0 = {} /\ ~ (0 >= 1)
      OBVIOUS
    <3> QED BY <2>1, <3>1 DEF Covering
  <2>3. 0 \in 0 .. n
    BY <1>1
  <2> QED BY <1>9, <2>2, <2>3
<1>11. \A i \in 1 .. n : i - 1 \in P => i \in P
  <2> SUFFICES ASSUME NEW i \in 1 .. n, Covering(s, i - 1, upto[i - 1])
               PROVE  Covering(s, i, upto[i])
    OBVIOUS
  <2> DEFINE j == i - 1
             m == upto[j]
  <2>1. j \in Nat /\ i = j + 1 /\ i \in 1 .. Len(s) /\ Covering(s, j, m)
    BY <1>1
  <2>2. upto[i] = Merge(m, s[i])
    BY <1>9
  <2> HIDE DEF j, m
  <2> QED BY <2>1, <2>2, MergeCovers
<1> HIDE DEF P
<1>12. P = 0 .. n
  BY <1>1, <1>10, <1>11, UpTo
<1>13. n \in P
  BY <1>1, <1>12
<1> QED BY <1>1, <1>3, <1>13 DEF P

(* The spans that are compiled of a class have the runes that are in it.    *)
LEMMA ClassesAreLegible ==
  ASSUME NEW x \in Lexemes
  PROVE  Legible(x)
<1> SUFFICES ASSUME x.kind \in Classes, ~ Malformed(x)
             PROVE  Deciphered(x)
  BY DEF Legible
<1>1. PICK g, S : Well(x, g, S) /\ ReadClass(x) = g[Len(x.items)]
  BY ClassIsWell
<1> DEFINE n == Len(x.items)
           s == g[n].spans
           w == Sorted(s)
           m == Merged(w)
<1>2. bldcclass(x) = m
  BY <1>1 DEF bldcclass
<1>3. \A r \in Nat : Within(s, r) <=> InClass(x, r)
  BY <1>1, SpansMean
<1>4. s \in Seq(Pairs)
  <2>1. Spanned(x, S, s, n, n)
    BY <1>1, SpansAreRead
  <2> QED BY <2>1 DEF Spanned
<1> HIDE DEF s, n
<1>5. SortedLike(s, w)
  BY <1>4, SortedIs
<1> HIDE DEF w
<1>6. w \in Seq(Pairs) /\ Len(w) \in Nat /\ DOMAIN w = 1 .. Len(w) /\ ToSet(w) = ToSet(s)
  BY <1>5 DEF SortedLike
<1>7. Covering(w, Len(w), m)
  BY <1>5, MergedIs DEF SortedLike
<1> HIDE DEF m
<1>8. ASSUME NEW r \in Nat
      PROVE  Within(m, r) <=> Within(s, r)
  <2>1. Within(m, r) <=> \E i \in DOMAIN w : w[i][1] <= r /\ r <= w[i][2]
    BY <1>6, <1>7 DEF Covering
  <2>2. \A z : (\E i \in DOMAIN z : z[i][1] <= r /\ r <= z[i][2])
               <=> \E e \in ToSet(z) : e[1] <= r /\ r <= e[2]
    BY DEF ToSet
  <2> QED BY <1>6, <2>1, <2>2 DEF Within
<1>9. m \in Seq(Int \X Int)
  BY <1>7 DEF Covering, Pairs
<1>10. \A r \in Nat : Within(m, r) <=> InClass(x, r)
  BY <1>3, <1>8
<1> QED BY <1>2, <1>9, <1>10 DEF Deciphered

-----------------------------------------------------------------------------
(* The theorem                                                             *)

(* The pattern is being compiled as the grammar says, or the program that   *)
(* was made of it accepts what the pattern means, in every text.            *)
CompilerInv ==
    /\ exstr \in Patterns
    /\ phase = "compile" =>
          /\ exstrptr \in 0 .. Len(exstr)
          /\ \A t \in Seq(Nat) : Proceeds(re, exstr, t, exstrptr)
    /\ phase \notin {"compile", "error"} => \A t \in Seq(Nat) : Right(re, exstr, t)

RegexpInv == MachineInv /\ CompilerInv

LEMMA ItStartsRight ==
  ASSUME Init, RegexpAssumption
  PROVE  RegexpInv
<1>1. phase = "compile" /\ exstr \in Patterns /\ exstrptr = 0 /\ re = Fresh
  BY DEF Init
<1>2. MachineInv
  BY DEF Init, MachineInv, Phases
<1>3. exstr \in Seq(Lexemes) /\ 0 \in 0 .. Len(exstr)
  BY <1>1 DEF RegexpAssumption
<1>4. \A t \in Seq(Nat) : Proceeds(re, exstr, t, exstrptr)
  BY <1>1, FreshParses
<1> QED BY <1>1, <1>2, <1>3, <1>4 DEF RegexpInv, CompilerInv

(* A step of the compiler: a token, or the end of the pattern.              *)
LEMMA CompileIsRight ==
  ASSUME RegexpInv, Compile, RegexpAssumption
  PROVE  RegexpInv'
<1> DEFINE q == IF exstrptr < Len(exstr) THEN Token(re, exstr[exstrptr + 1]) ELSE Close(re)
<1>1. /\ phase = "compile" /\ re' = q /\ exstrptr' = exstrptr + 1 /\ exstr' = exstr
      /\ phase' = IF q.err # "none" THEN "error"
                  ELSE IF exstrptr = Len(exstr) THEN "compiled" ELSE phase
      /\ ptr' = ptr /\ nl' = nl /\ mp' = mp /\ matchstart' = matchstart
  BY DEF Compile
<1>2. q = IF exstrptr < Len(exstr) THEN Token(re, exstr[exstrptr + 1]) ELSE Close(re)
  OBVIOUS
<1> HIDE DEF q
<1>3. /\ exstr \in Patterns /\ exstrptr \in 0 .. Len(exstr)
      /\ \A t \in Seq(Nat) : Proceeds(re, exstr, t, exstrptr)
  BY <1>1 DEF RegexpInv, CompilerInv
<1>4. exstr \in Seq(Lexemes) /\ Len(exstr) \in Nat
  BY <1>3 DEF RegexpAssumption
<1>5. ptr = 0 /\ nl = <<>> /\ mp = NoSubs(Ms) /\ matchstart = -1
  BY <1>1 DEF RegexpInv, MachineInv
<1>6. phase' \in {"compile", "error", "compiled"}
  BY <1>1
<1>7. MachineInv'
  BY <1>1, <1>5, <1>6 DEF MachineInv, Phases
<1>8. CASE q.err # "none"
  <2>1. phase' = "error"
    BY <1>1, <1>8
  <2> QED BY <1>1, <1>3, <1>7, <2>1 DEF RegexpInv, CompilerInv
<1>9. CASE q.err = "none" /\ exstrptr < Len(exstr)
  <2> DEFINE l == exstrptr + 1
             x == exstr[l]
  <2>1. l = exstrptr + 1 /\ l \in 1 .. Len(exstr) /\ l \in 0 .. Len(exstr) /\ exstrptr \in Nat
    BY <1>3, <1>4, <1>9
  <2>2. x = exstr[l] /\ x \in Lexemes /\ q = Token(re, x)
    BY <1>2, <1>4, <1>9, <2>1
  <2>3. Legible(x)
    BY <2>2, ClassesAreLegible
  <2> HIDE DEF l, x
  <2>4. ASSUME NEW t \in Seq(Nat)
        PROVE  Proceeds(q, exstr, t, l)
    <3>1. PICK nd, nb : Parsed(re, nd, nb, exstr, t, exstrptr)
      BY <1>3 DEF Proceeds
    <3> QED BY <1>4, <1>9, <2>1, <2>2, <2>3, <3>1, TokenParses
  <2>5. phase' = "compile"
    BY <1>1, <1>9
  <2> QED BY <1>1, <1>3, <1>7, <2>1, <2>4, <2>5 DEF RegexpInv, CompilerInv
<1>10. CASE q.err = "none" /\ ~ (exstrptr < Len(exstr))
  <2>1. exstrptr = Len(exstr) /\ q = Close(re)
    BY <1>2, <1>3, <1>4, <1>10
  <2>2. phase' = "compiled"
    BY <1>1, <1>10, <2>1
  <2>3. \A t \in Seq(Nat) : Right(q, exstr, t)
    BY <1>3, <1>4, <1>10, <2>1, CloseIsRight
  <2> QED BY <1>1, <1>3, <1>7, <2>2, <2>3 DEF RegexpInv, CompilerInv
<1> QED BY <1>8, <1>9, <1>10

LEMMA RegexpSteps ==
  ASSUME RegexpInv, [Next]_vars, RegexpAssumption
  PROVE  RegexpInv'
<1>1. CASE Compile
  BY <1>1, CompileIsRight
<1>2. CASE Next /\ ~ Compile
  <2>1. phase \notin {"compile", "error"} => Runnable(re)
    <3>1. <<>> \in Seq(Nat)
      OBVIOUS
    <3> QED BY <3>1 DEF RegexpInv, CompilerInv, Right
  <2>2. MachineInv' /\ UNCHANGED re /\ phase \notin {"compile", "error"}
    BY <1>2, <2>1, MachineSteps DEF RegexpInv
  <2>3. UNCHANGED exstr /\ phase' \notin {"compile", "error"}
    BY <1>2, <2>2 DEF Next, Apply, GiveUp, Character, Bracketed, Line, Choice, Consume, Match, Advance
  <2> QED BY <2>2, <2>3 DEF RegexpInv, CompilerInv
<1>3. CASE UNCHANGED vars
  BY <1>3 DEF vars, RegexpInv, CompilerInv, MachineInv, Matching, Running, Finished, BestIsAccepted
<1> QED BY <1>1, <1>2, <1>3

LEMMA RegexpIsRight ==
  ASSUME RegexpInv, RegexpAssumption
  PROVE  FindsLeftmostLongest
<1> SUFFICES ASSUME phase = "done"
             PROVE  \E spans \in Meanings(exstr, text) :
                       IF spans = {} THEN mp = NoSubs(Ms) /\ matchstart = -1
                       ELSE /\ <<mp[0].csp, mp[0].cep>> = Leftmost(spans)
                            /\ \E s \in spans : s[1] = matchstart
  BY DEF FindsLeftmostLongest
<1>1. MachineInv /\ text \in Seq(Nat)
  BY DEF RegexpInv, MachineInv
<1>2. Accepted(re, text) \in Meanings(exstr, text)
  BY <1>1 DEF RegexpInv, CompilerInv, Right
<1>3. IF Accepted(re, text) = {} THEN mp = NoSubs(Ms) /\ matchstart = -1
      ELSE /\ <<mp[0].csp, mp[0].cep>> = Leftmost(Accepted(re, text))
           /\ \E s \in Accepted(re, text) : s[1] = matchstart
  BY <1>1, MachineIsRight
<1> QED BY <1>2, <1>3

(* Of every pattern that compiles, and in every text, the machine finds the *)
(* match that the grammar and the meanings of its operators say is leftmost *)
(* and among those the longest (rregexec.c, regcomp.c).                     *)
THEOREM FindsTheLeftmostLongest == Spec => []FindsLeftmostLongest
<1>1. Init => RegexpInv
  BY ItStartsRight, RegexpAssumption
<1>2. RegexpInv /\ [Next]_vars => RegexpInv'
  BY RegexpSteps, RegexpAssumption
<1>3. RegexpInv => FindsLeftmostLongest
  BY RegexpIsRight, RegexpAssumption
<1> QED BY <1>1, <1>2, <1>3, PTL DEF Spec

-----------------------------------------------------------------------------
(* What compiles: the tokens of an expression                              *)

Beginning == Letters \cup {"("}
Finishing == Letters \cup {")"} \cup Unary

(* d[k] is the number of brackets that are open after k tokens.              *)
Depths(ts, d) ==
    /\ d \in [0 .. Len(ts) -> Int] /\ d[0] = 0
    /\ \A k \in 1 .. Len(ts) :
          /\ ts[k].kind = "(" => d[k] = d[k - 1] + 1
          /\ ts[k].kind = ")" => d[k] = d[k - 1] - 1
          /\ ts[k].kind \notin {"(", ")"} => d[k] = d[k - 1]

(* After a left bracket or a bar an operand begins.                          *)
GoesOn(ts, k) == ts[k].kind \in {"(", "|"} => ts[k + 1].kind \in Beginning

(* What is so of the tokens from a to b if they are an expression.           *)
Decent(ts, d, a, b) ==
    /\ a \in 1 .. b /\ b \in 1 .. Len(ts)
    /\ ts[a].kind \in Beginning /\ ts[b].kind \in Finishing
    /\ \A k \in a .. b - 1 : GoesOn(ts, k)
    /\ \A k \in a .. b : d[a - 1] <= d[k]
    /\ d[b] = d[a - 1]

LEMMA DepthsExist ==
  ASSUME NEW ts \in Seq(Lexemes)
  PROVE  \E d : Depths(ts, d)
<1> DEFINE n == Len(ts)
           Nested(k, v) == IF ts[k].kind = "(" THEN v + 1
                         ELSE IF ts[k].kind = ")" THEN v - 1 ELSE v
           F == [k \in 1 .. n |-> [v \in Int |-> Nested(k, v)]]
<1>1. n \in Nat
  OBVIOUS
<1>2. \A k \in 1 .. n : F[k] \in [Int -> Int] /\ \A v \in Int : F[k][v] = Nested(k, v)
  OBVIOUS
<1>3. PICK d \in [0 .. n -> Int] : ByRecursion(d, F, 0, n)
  <2> HIDE DEF F, n
  <2>1. 0 \in Int
    OBVIOUS
  <2> QED BY <1>1, <1>2, <2>1, RecursionExists
<1>4. ASSUME NEW k \in 1 .. n
      PROVE  d[k] = Nested(k, d[k - 1]) /\ d[k - 1] \in Int
  <2> HIDE DEF F, n
  <2>1. k - 1 \in 0 .. n
    BY <1>1
  <2>2. d[k - 1] \in Int /\ d[k] = F[k][d[k - 1]]
    BY <1>3, <2>1 DEF ByRecursion
  <2> QED BY <1>2, <2>2
<1>5. d[0] = 0
  BY <1>3 DEF ByRecursion
<1> QED BY <1>3, <1>4, <1>5 DEF Depths

LEMMA FinishingGoesOn ==
  ASSUME NEW ts, NEW k, ts[k].kind \in Finishing
  PROVE  GoesOn(ts, k)
BY DEF GoesOn, Finishing, Letters, Unary

LEMMA DepthsAre ==
  ASSUME NEW ts \in Seq(Lexemes), NEW d, Depths(ts, d)
  PROVE  \A k \in 0 .. Len(ts) : d[k] \in Int
BY DEF Depths

LEMMA LetterIsDecent ==
  ASSUME NEW ts \in Seq(Lexemes), NEW d, Depths(ts, d), NEW k \in 1 .. Len(ts),
         ts[k].kind \in Letters
  PROVE  Decent(ts, d, k, k)
<1>1. ts[k].kind \notin {"(", ")"} /\ ts[k].kind \in Beginning /\ ts[k].kind \in Finishing
  BY DEF Letters, Beginning, Finishing
<1>2. d[k] = d[k - 1]
  BY <1>1 DEF Depths
<1>3. k \in 1 .. k /\ k - 1 \in 0 .. Len(ts) /\ k \in 0 .. Len(ts)
  OBVIOUS
<1>4. d[k] \in Int /\ d[k - 1] \in Int
  BY <1>3, DepthsAre
<1>5. \A j \in k .. k : j = k
  OBVIOUS
<1>6. k .. k - 1 = {}
  OBVIOUS
<1> QED BY <1>1, <1>2, <1>3, <1>4, <1>5, <1>6 DEF Decent

LEMMA RepeatIsDecent ==
  ASSUME NEW ts \in Seq(Lexemes), NEW d, Depths(ts, d), NEW a, NEW b, Decent(ts, d, a, b),
         NEW l, l = b + 1, l <= Len(ts), ts[l].kind \in Unary
  PROVE  Decent(ts, d, a, l)
<1>1. a \in 1 .. b /\ b \in 1 .. Len(ts) /\ Len(ts) \in Nat /\ l - 1 = b
  BY DEF Decent
<1>2. l \in 1 .. Len(ts) /\ a \in 1 .. l
  BY <1>1
<1>3. ts[l].kind \notin {"(", ")"} /\ ts[l].kind \in Finishing
  BY DEF Unary, Finishing
<1>4. d[l] = d[a - 1]
  BY <1>1, <1>2, <1>3 DEF Depths, Decent
<1>5. ASSUME NEW k \in a .. l - 1
      PROVE  GoesOn(ts, k)
  <2>1. k \in a .. b - 1 \/ k = b
    BY <1>1
  <2> QED BY <2>1, FinishingGoesOn DEF Decent
<1>6. ASSUME NEW k \in a .. l
      PROVE  d[a - 1] <= d[k]
  <2>1. k \in a .. b \/ k = l
    BY <1>1
  <2>2. a - 1 \in 0 .. Len(ts)
    BY <1>1
  <2>3. d[a - 1] \in Int
    BY <2>2, DepthsAre
  <2> QED BY <1>4, <2>1, <2>3 DEF Decent
<1> QED BY <1>2, <1>3, <1>4, <1>5, <1>6 DEF Decent

LEMMA GroupIsDecent ==
  ASSUME NEW ts \in Seq(Lexemes), NEW d, Depths(ts, d), NEW a, NEW b, Decent(ts, d, a, b),
         NEW c, c = a - 1, c >= 1, ts[c].kind = "(",
         NEW l, l = b + 1, l <= Len(ts), ts[l].kind = ")"
  PROVE  Decent(ts, d, c, l)
<1>1. /\ a \in 1 .. b /\ b \in 1 .. Len(ts) /\ Len(ts) \in Nat /\ l - 1 = b /\ a - 1 = c
      /\ c + 1 = a
  BY DEF Decent
<1>2. l \in 1 .. Len(ts) /\ c \in 1 .. l /\ c \in 1 .. Len(ts)
  BY <1>1
<1>3. ts[l].kind \in Finishing /\ ts[c].kind \in Beginning
  BY DEF Finishing, Beginning
<1>4. /\ d[c] = d[c - 1] + 1 /\ d[l] = d[b] - 1 /\ d[b] = d[c]
  BY <1>1, <1>2 DEF Depths, Decent
<1>5. /\ \A k \in c .. l : d[k] \in Int
      /\ d[c - 1] \in Int
  <2>1. c - 1 \in 0 .. Len(ts) /\ \A k \in c .. l : k \in 0 .. Len(ts)
    BY <1>1, <1>2
  <2> QED BY <2>1, DepthsAre
<1>6. b \in c .. l /\ c \in c .. l /\ l \in c .. l
  BY <1>1, <1>2
<1>7. d[l] = d[c - 1]
  BY <1>4, <1>5, <1>6
<1>8. ASSUME NEW k \in c .. l - 1
      PROVE  GoesOn(ts, k)
  <2>1. k = c \/ k \in a .. b - 1 \/ k = b
    BY <1>1, <1>2
  <2>2. GoesOn(ts, c)
    BY <1>1 DEF GoesOn, Decent
  <2> QED BY <2>1, <2>2, FinishingGoesOn DEF Decent
<1>9. ASSUME NEW k \in c .. l
      PROVE  d[c - 1] <= d[k]
  <2>1. k = c \/ k \in a .. b \/ k = l
    BY <1>1, <1>2
  <2>2. k \in a .. b => d[c] <= d[k]
    BY <1>1 DEF Decent
  <2>3. d[k] \in Int /\ d[c] \in Int
    BY <1>5, <1>6
  <2> QED BY <1>4, <1>5, <1>7, <2>1, <2>2, <2>3
<1> QED BY <1>2, <1>3, <1>7, <1>8, <1>9 DEF Decent

LEMMA JoinedIsDecent ==
  ASSUME NEW ts \in Seq(Lexemes), NEW d, Depths(ts, d), NEW a, NEW b, Decent(ts, d, a, b),
         NEW c, c = b + 1, NEW e, Decent(ts, d, c, e)
  PROVE  Decent(ts, d, a, e)
<1>1. /\ a \in 1 .. b /\ b \in 1 .. Len(ts) /\ Len(ts) \in Nat /\ c \in 1 .. e
      /\ e \in 1 .. Len(ts) /\ c - 1 = b
  BY DEF Decent
<1>2. a \in 1 .. e
  BY <1>1
<1>3. d[b] = d[a - 1] /\ d[e] = d[b]
  BY <1>1 DEF Decent
<1>4. ASSUME NEW k \in a .. e - 1
      PROVE  GoesOn(ts, k)
  <2>1. k \in a .. b - 1 \/ k = b \/ k \in c .. e - 1
    BY <1>1
  <2> QED BY <2>1, FinishingGoesOn DEF Decent
<1>5. ASSUME NEW k \in a .. e
      PROVE  d[a - 1] <= d[k]
  <2>1. k \in a .. b \/ k \in c .. e
    BY <1>1
  <2>2. k \in c .. e => d[b] <= d[k]
    BY <1>1 DEF Decent
  <2> QED BY <1>3, <2>1, <2>2 DEF Decent
<1> QED BY <1>1, <1>2, <1>3, <1>4, <1>5 DEF Decent

LEMMA ChoiceIsDecent ==
  ASSUME NEW ts \in Seq(Lexemes), NEW d, Depths(ts, d), NEW a, NEW b, Decent(ts, d, a, b),
         NEW l, l = b + 1, ts[l].kind = "|", NEW c, c = l + 1, NEW e, Decent(ts, d, c, e)
  PROVE  Decent(ts, d, a, e)
<1>1. /\ a \in 1 .. b /\ b \in 1 .. Len(ts) /\ Len(ts) \in Nat /\ c \in 1 .. e
      /\ e \in 1 .. Len(ts) /\ c - 1 = l /\ l - 1 = b
  BY DEF Decent
<1>2. a \in 1 .. e /\ l \in 1 .. Len(ts)
  BY <1>1
<1>3. d[l] = d[b]
  BY <1>1, <1>2 DEF Depths
<1>4. d[b] = d[a - 1] /\ d[e] = d[l]
  BY <1>1 DEF Decent
<1>5. ASSUME NEW k \in a .. e - 1
      PROVE  GoesOn(ts, k)
  <2>1. k \in a .. b - 1 \/ k = b \/ k = l \/ k \in c .. e - 1
    BY <1>1
  <2>2. GoesOn(ts, l)
    BY DEF GoesOn, Decent
  <2> QED BY <2>1, <2>2, FinishingGoesOn DEF Decent
<1>6. ASSUME NEW k \in a .. e
      PROVE  d[a - 1] <= d[k]
  <2>1. k \in a .. b \/ k = l \/ k \in c .. e
    BY <1>1
  <2>2. k \in c .. e => d[l] <= d[k]
    BY <1>1 DEF Decent
  <2>3. a - 1 \in 0 .. Len(ts)
    BY <1>1
  <2>4. d[a - 1] \in Int
    BY <2>3, DepthsAre
  <2> QED BY <1>3, <1>4, <2>1, <2>2, <2>4 DEF Decent
<1> QED BY <1>1, <1>2, <1>3, <1>4, <1>5, <1>6 DEF Decent

(* So is what a fact is about.                                              *)
AllDecent(ts, d, F) == \A f \in F : Decent(ts, d, f.from, f.to)

LEMMA PieceIsDecent ==
  ASSUME NEW ts \in Seq(Lexemes), NEW t, NEW d, Depths(ts, d), NEW n,
         NEW F \in SUBSET AllFacts(t), AllDecent(ts, d, F)
  PROVE  AllDecent(ts, d, Pieces(ts, t, n, F))
<1> SUFFICES ASSUME NEW x \in Pieces(ts, t, n, F)
             PROVE  Decent(ts, d, x.from, x.to)
  BY DEF AllDecent
<1>1. \/ \E k \in DOMAIN ts : /\ n = 1 /\ ts[k].kind \in Letters
                              /\ x = Fact("piece", k, k, LetterSpans(ts[k], t))
      \/ \E f \in F : /\ Repeats(ts, f, n)
                      /\ x = Fact("piece", f.from, f.to + 1,
                                  Repeated(ts[f.to + 1].kind, f.spans, t))
      \/ \E f \in F : /\ Groups(ts, f, n)
                      /\ x = Fact("piece", f.from - 1, f.to + 1, f.spans)
  BY PiecesAre
<1>2. ASSUME NEW k \in DOMAIN ts, NEW r, ts[k].kind \in Letters, x = Fact("piece", k, k, r)
      PROVE  Decent(ts, d, x.from, x.to)
  <2>1. x.from = k /\ x.to = k /\ k \in 1 .. Len(ts)
    BY <1>2, FactIs
  <2> QED BY <1>2, <2>1, LetterIsDecent
<1>3. ASSUME NEW f \in F, NEW r, Repeats(ts, f, n), x = Fact("piece", f.from, f.to + 1, r)
      PROVE  Decent(ts, d, x.from, x.to)
  <2> DEFINE b == f.to
             l == b + 1
  <2>1. x.from = f.from /\ x.to = l
    BY <1>3, FactIs
  <2>2. b < Len(ts) /\ ts[l].kind \in Unary /\ b \in Int
    BY <1>3, FactFields DEF Repeats, Unary
  <2>3. l = b + 1 /\ Decent(ts, d, f.from, b)
    BY DEF AllDecent
  <2>4. l <= Len(ts)
    BY <2>2, <2>3
  <2> HIDE DEF b, l
  <2> QED BY <2>1, <2>2, <2>3, <2>4, RepeatIsDecent
<1>4. ASSUME NEW f \in F, Groups(ts, f, n), x = Fact("piece", f.from - 1, f.to + 1, f.spans)
      PROVE  Decent(ts, d, x.from, x.to)
  <2> DEFINE a == f.from
             b == f.to
             c == a - 1
             l == b + 1
  <2>1. x.from = c /\ x.to = l
    BY <1>4, FactIs
  <2>2. /\ b < Len(ts) /\ ts[l].kind = ")" /\ a > 1 /\ ts[c].kind = "("
        /\ a \in Int /\ b \in Int
    BY <1>4, FactFields DEF Groups
  <2>3. c = a - 1 /\ l = b + 1 /\ Decent(ts, d, a, b)
    BY DEF AllDecent
  <2>4. c >= 1 /\ l <= Len(ts)
    BY <2>2, <2>3
  <2> HIDE DEF a, b, c, l
  <2> QED BY <2>1, <2>2, <2>3, <2>4, GroupIsDecent
<1> QED BY <1>1, <1>2, <1>3, <1>4

LEMMA BranchIsDecent ==
  ASSUME NEW ts \in Seq(Lexemes), NEW t, NEW d, Depths(ts, d), NEW n,
         NEW F \in SUBSET AllFacts(t), AllDecent(ts, d, F),
         NEW P \in SUBSET AllFacts(t), AllDecent(ts, d, P)
  PROVE  AllDecent(ts, d, Branches(n, F, P))
<1> SUFFICES ASSUME NEW x \in Branches(n, F, P)
             PROVE  Decent(ts, d, x.from, x.to)
  BY DEF AllDecent
<1>1. \/ x \in As("branch", P)
      \/ \E f \in F, g \in F : /\ f.kind = "branch" /\ Then(f, g, n)
                               /\ x = Fact("branch", f.from, g.to, Joined(f.spans, g.spans))
  BY BranchesAre
<1>2. CASE x \in As("branch", P)
  <2>0. As("branch", P) = {Fact("branch", f.from, f.to, f.spans) : f \in P}
    BY AsIs
  <2>1. PICK f \in P : x = Fact("branch", f.from, f.to, f.spans)
    BY <1>2, <2>0
  <2> QED BY <2>1, FactIs DEF AllDecent
<1>3. ASSUME NEW f \in F, NEW g \in F, NEW r, Then(f, g, n), x = Fact("branch", f.from, g.to, r)
      PROVE  Decent(ts, d, x.from, x.to)
  <2>1. x.from = f.from /\ x.to = g.to
    BY <1>3, FactIs
  <2>2. Decent(ts, d, f.from, f.to) /\ Decent(ts, d, g.from, g.to) /\ g.from = f.to + 1
    BY <1>3 DEF AllDecent, Then
  <2> QED BY <2>1, <2>2, JoinedIsDecent
<1> QED BY <1>1, <1>2, <1>3

LEMMA TreeIsDecent ==
  ASSUME NEW ts \in Seq(Lexemes), NEW t, NEW d, Depths(ts, d), NEW n,
         NEW F \in SUBSET AllFacts(t), AllDecent(ts, d, F),
         NEW B \in SUBSET AllFacts(t), AllDecent(ts, d, B)
  PROVE  AllDecent(ts, d, Trees(ts, n, F, B))
<1> SUFFICES ASSUME NEW x \in Trees(ts, n, F, B)
             PROVE  Decent(ts, d, x.from, x.to)
  BY DEF AllDecent
<1>1. \/ x \in As("tree", B)
      \/ \E f \in F, g \in F : /\ OrElse(ts, f, g, n)
                               /\ x = EitherOf(f, g)
  BY TreesAre
<1>2. CASE x \in As("tree", B)
  <2>0. As("tree", B) = {Fact("tree", f.from, f.to, f.spans) : f \in B}
    BY AsIs
  <2>1. PICK f \in B : x = Fact("tree", f.from, f.to, f.spans)
    BY <1>2, <2>0
  <2> QED BY <2>1, FactIs DEF AllDecent
<1>3. ASSUME NEW f \in F, NEW g \in F, OrElse(ts, f, g, n), x = EitherOf(f, g)
      PROVE  Decent(ts, d, x.from, x.to)
  <2> DEFINE b == f.to
             l == b + 1
             c == g.from
  <2>1. x.from = f.from /\ x.to = g.to
    BY <1>3, FactIs DEF EitherOf
  <2>2. /\ Decent(ts, d, f.from, b) /\ Decent(ts, d, c, g.to) /\ c = b + 2 /\ l = b + 1
        /\ ts[l].kind = "|" /\ b \in Int
    BY <1>3, FactFields DEF AllDecent, OrElse
  <2> HIDE DEF b, l, c
  <2>3. c = l + 1
    BY <2>2
  <2> QED BY <2>1, <2>2, <2>3, ChoiceIsDecent
<1> QED BY <1>1, <1>2, <1>3

LEMMA FactsAreDecent ==
  ASSUME NEW ts \in Seq(Lexemes), NEW t, NEW d, Depths(ts, d)
  PROVE  AllDecent(ts, d, Facts(ts, t))
<1>1. PICK g : Growing(ts, t, g) /\ Facts(ts, t) = g[Len(ts)]
  BY FactsGrow
<1> DEFINE L == Len(ts)
           P == {n \in 0 .. L : AllDecent(ts, d, g[n])}
<1>2. L \in Nat /\ L \in 0 .. L /\ g \in [0 .. L -> SUBSET AllFacts(t)] /\ g[0] = {}
      /\ \A n \in 1 .. L : g[n] = Extended(ts, t, n, g[n - 1])
  BY <1>1 DEF Growing
<1>3. 0 \in P
  BY <1>2 DEF AllDecent
<1>4. \A n \in 1 .. L : n - 1 \in P => n \in P
  <2> SUFFICES ASSUME NEW n \in 1 .. L, AllDecent(ts, d, g[n - 1]) PROVE AllDecent(ts, d, g[n])
    OBVIOUS
  <2> DEFINE F == g[n - 1]
             Ps == Pieces(ts, t, n, F)
             Bs == Branches(n, F, Ps)
             Ts == Trees(ts, n, F, Bs)
  <2>1. F \in SUBSET AllFacts(t) /\ g[n] = Extended(ts, t, n, F) /\ AllDecent(ts, d, F)
    BY <1>2
  <2> HIDE DEF F
  <2>2. Ps \in SUBSET AllFacts(t) /\ AllDecent(ts, d, Ps)
    BY <2>1, PiecesTyped, PieceIsDecent
  <2>3. Extended(ts, t, n, F) = F \cup Ps \cup Bs \cup Ts
    BY DEF Extended
  <2> HIDE DEF Ps
  <2>4. Bs \in SUBSET AllFacts(t) /\ AllDecent(ts, d, Bs)
    BY <2>1, <2>2, BranchesTyped, BranchIsDecent
  <2> HIDE DEF Bs
  <2>5. AllDecent(ts, d, Ts)
    BY <2>1, <2>4, TreeIsDecent
  <2> HIDE DEF Ts
  <2> QED BY <2>1, <2>2, <2>3, <2>4, <2>5 DEF AllDecent
<1>5. P \in SUBSET (0 .. L)
  OBVIOUS
<1>6. P = 0 .. L
  <2> HIDE DEF P
  <2> QED BY <1>2, <1>3, <1>4, <1>5, UpTo
<1> QED BY <1>1, <1>2, <1>6

(* The tokens of a pattern that means something.                            *)
Formed(ts, d) == Depths(ts, d) /\ (ts # <<>> => Decent(ts, d, 1, Len(ts)))

LEMMA MeaningIsFormed ==
  ASSUME NEW ts \in Seq(Lexemes), NEW t, Meanings(ts, t) # {}
  PROVE  \E d : Formed(ts, d)
<1>1. PICK d : Depths(ts, d)
  BY DepthsExist
<1>2. ASSUME ts # <<>>
      PROVE  Decent(ts, d, 1, Len(ts))
  <2>1. PICK f \in Facts(ts, t) : f.from = 1 /\ f.to = Len(ts)
    BY <1>2 DEF Meanings
  <2>2. Decent(ts, d, f.from, f.to)
    BY <1>1, FactsAreDecent DEF AllDecent
  <2> QED BY <2>1, <2>2
<1> QED BY <1>1, <1>2 DEF Formed

(* What is known of the l-th token.                                         *)
FormedAt(ts, d, k, l) ==
    /\ d[k] \in Nat /\ d[l] \in Nat
    /\ ts[l].kind = "(" => d[l] = d[k] + 1
    /\ ts[l].kind = ")" => d[k] > 0 /\ d[l] = d[k] - 1
    /\ ts[l].kind \notin {"(", ")"} => d[l] = d[k]
    /\ ts[l].kind \notin Beginning => k >= 1 /\ ts[k].kind \in Finishing

LEMMA FormedTokens ==
  ASSUME NEW ts \in Seq(Lexemes), NEW d, Formed(ts, d), NEW k \in Nat, NEW l, l = k + 1,
         l \in 1 .. Len(ts)
  PROVE  FormedAt(ts, d, k, l)
<1>1. Len(ts) \in Nat /\ ts # <<>> /\ k = l - 1
  OBVIOUS
<1>2. Depths(ts, d) /\ Decent(ts, d, 1, Len(ts)) /\ 1 - 1 = 0 /\ d[0] = 0
  BY <1>1 DEF Formed, Depths
<1>3. \A j \in 0 .. Len(ts) : d[j] \in Nat
  <2> TAKE j \in 0 .. Len(ts)
  <2>1. d[j] \in Int
    BY <1>2, DepthsAre
  <2>2. j = 0 \/ j \in 1 .. Len(ts)
    OBVIOUS
  <2>3. j \in 1 .. Len(ts) => d[0] <= d[j]
    BY <1>2 DEF Decent
  <2> QED BY <1>2, <2>1, <2>2, <2>3
<1>4. d[k] \in Nat /\ d[l] \in Nat
  <2>1. k \in 0 .. Len(ts) /\ l \in 0 .. Len(ts)
    BY <1>1
  <2> QED BY <1>3, <2>1
<1>5. /\ ts[l].kind = "(" => d[l] = d[k] + 1
      /\ ts[l].kind = ")" => d[l] = d[k] - 1
      /\ ts[l].kind \notin {"(", ")"} => d[l] = d[k]
  BY <1>1, <1>2 DEF Depths
<1>6. ASSUME ts[l].kind \notin Beginning
      PROVE  k >= 1 /\ ts[k].kind \in Finishing
  <2>1. l # 1
    BY <1>2, <1>6 DEF Decent
  <2>2. k \in 1 .. Len(ts) - 1 /\ k \in 1 .. Len(ts) /\ k >= 1
    BY <1>1, <2>1
  <2>3. GoesOn(ts, k)
    BY <1>2, <2>2 DEF Decent
  <2>4. ts[k].kind \notin {"(", "|"}
    BY <1>6, <2>3 DEF GoesOn
  <2>5. ts[k].kind \in Letters \cup Operators
    <3>1. ts[k] \in Lexemes
      BY <2>2, ElementOfSeq
    <3> QED BY <3>1 DEF Lexemes
  <2> QED BY <2>2, <2>4, <2>5 DEF Operators, Finishing, Unary
<1>7. ts[l].kind = ")" => d[k] > 0
  BY <1>4, <1>5
<1> QED BY <1>4, <1>5, <1>6, <1>7 DEF FormedAt

-----------------------------------------------------------------------------
(* What compiles: the parser                                               *)

Limits == {"operand stack overflow", "operator stack overflow", "too many subexpressions",
           "too many character classes", "malformed '[]'"}

(* There are n operands more than the operators stand for, and v brackets    *)
(* are open.                                                               *)
Tallied(p, nd, nb, n, v) ==
    /\ Stacked(p, nd, nb) /\ p.err = "none"
    /\ Len(p.ands) = nd[Len(p.ators)] + n /\ nb[Len(p.ators)] = v
Tally(p, n, v) == \E nd, nb : Tallied(p, nd, nb, n, v)

LEMMA EvaluationTallies ==
  ASSUME NEW p, NEW nd, NEW nb, NEW v \in Nat, Tallied(p, nd, nb, 1, v),
         NEW pri \in Priorities, pri = ")" => v > 0, pri = "start" => v = 0,
         NEW q, q = evaluntil(p, pri)
  PROVE  /\ q \in Parsers /\ Else(p, q) /\ q.err \in {"none"} \cup Limits
         /\ q.err = "none" => Tallied(q, nd, nb, 1, IF pri = ")" THEN v - 1 ELSE v)
<1>1. /\ Stacked(p, nd, nb) /\ p.err = "none" /\ p \in Parsers
      /\ Len(p.ands) = nd[Len(p.ators)] + 1 /\ nb[Len(p.ators)] = v
  BY DEF Tallied, Stacked
<1>2. Keeps(nd, nb, pri, Parsers, Parsers)
  BY ReduceCounts DEF Keeps, Stacked
<1>3. Matched(p, nb, pri)
  BY <1>1 DEF Matched
<1>4. /\ q \in Parsers
      /\ \E s : s.parser = q /\ s.over = TRUE /\ Evaluating(s, p, nd, nb, pri, Parsers, Parsers)
  BY <1>1, <1>2, <1>3, Evaluation
<1>5. PICK s : s.parser = q /\ s.over = TRUE /\ Evaluating(s, p, nd, nb, pri, Parsers, Parsers)
  BY <1>4
<1>6. /\ Else(p, q) /\ Excused(p, nd, q.err)
      /\ q.err = "none" =>
           /\ Stacked(q, nd, nb)
           /\ nd[Len(q.ators)] - Len(q.ands) = nd[Len(p.ators)] - Len(p.ands)
           /\ IF pri = ")" THEN nb[Len(q.ators)] = nb[Len(p.ators)] - 1
              ELSE nb[Len(q.ators)] = nb[Len(p.ators)]
  BY <1>5 DEF Evaluating
<1>7. q.err \in {"none"} \cup Limits
  <2> DEFINE a == nd[Len(p.ators)]
             b == Len(p.ands)
  <2>1. a \in Nat /\ b = a + 1
    BY <1>1, OpsAre
  <2> HIDE DEF a, b
  <2>2. ~ (b < a + 1)
    BY <2>1
  <2>3. ~ Lacks(p, nd, 1)
    BY <2>2 DEF Lacks, a, b
  <2> QED BY <1>6, <2>3 DEF Excused, Limits
<1>8. ASSUME q.err = "none"
      PROVE  Tallied(q, nd, nb, 1, IF pri = ")" THEN v - 1 ELSE v)
  <2> DEFINE a == nd[Len(p.ators)]
             b == Len(p.ands)
             c == nd[Len(q.ators)]
             e == Len(q.ands)
  <2>1. Stacked(q, nd, nb) /\ c - e = a - b /\ b = a + 1
    BY <1>1, <1>6, <1>8
  <2>2. a \in Nat /\ b \in Nat /\ c \in Nat /\ e \in Nat
    BY <1>1, <2>1, OpsAre
  <2> HIDE DEF a, b, c, e
  <2>3. e = c + 1
    BY <2>1, <2>2
  <2> QED BY <1>1, <1>6, <1>8, <2>1, <2>3 DEF Tallied, c, e
<1> QED BY <1>4, <1>6, <1>7, <1>8

(* What is needed of a parser that an operator was pushed on.               *)
PushedWell(p, q, op, n, v) ==
    /\ Tally(q, IF op \in Binary THEN 0 ELSE n, IF op = "(" THEN v + 1 ELSE v)
    /\ q.nbra = p.nbra /\ q.cursubid = p.cursubid /\ q.lastwasand = (op \in Unary)

LEMMA PushTallies ==
  ASSUME NEW p, NEW nd, NEW nb, NEW n \in {0, 1}, NEW v \in Nat, Tallied(p, nd, nb, n, v),
         NEW op \in {"("} \cup Binary \cup Unary, op \in Binary => n = 1,
         op = "(" => p.cursubid # 0, NEW q, q = Pushed(p, op), RegexpAssumption
  PROVE  /\ q.err \in {"none"} \cup Limits
         /\ q.err = "none" => PushedWell(p, q, op, n, v)
<1>1. /\ Stacked(p, nd, nb) /\ p.err = "none" /\ p \in Parsers
      /\ Len(p.ands) = nd[Len(p.ators)] + n /\ nb[Len(p.ators)] = v
  BY DEF Tallied, Stacked
<1>2. q.err \in {"none"} \cup Limits
  <2>1. q.err \in {"none", "operator stack overflow"}
    BY <1>1, PushedIs
  <2> QED BY <2>1 DEF Limits
<1>3. ASSUME q.err = "none"
      PROVE  PushedWell(p, q, op, n, v)
  <2>1. PICK nd2, nb2 : Pushes(p, q, op, nd, nb, nd2, nb2)
    BY <1>1, <1>3, PushStacked
  <2>2. /\ Stacked(q, nd2, nb2) /\ q.ands = p.ands /\ TopOp(q) = op
        /\ q.nbra = p.nbra /\ q.cursubid = p.cursubid /\ q.lastwasand = (op \in Unary)
    BY <2>1 DEF Pushes, Pushing, TopOp
  <2> DEFINE a == nd[Len(p.ators)]
             b == nd2[Len(q.ators)]
             c == nb2[Len(q.ators)]
  <2>3. /\ b = a + (IF op \in Binary THEN 1 ELSE 0)
        /\ c = v + (IF op \in {"("} THEN 1 ELSE 0)
    BY <1>1, <2>1, <2>2 DEF Pushes, Counting
  <2>4. a \in Nat /\ Len(q.ands) = a + n
    BY <1>1, <2>2, OpsAre
  <2> HIDE DEF a, b, c
  <2>5. Len(q.ands) = b + (IF op \in Binary THEN 0 ELSE n)
    BY <2>3, <2>4
  <2>6. c = IF op = "(" THEN v + 1 ELSE v
    BY <2>3
  <2>7. Tally(q, IF op \in Binary THEN 0 ELSE n, IF op = "(" THEN v + 1 ELSE v)
    BY <1>3, <2>2, <2>5, <2>6 DEF Tally, Tallied, b, c
  <2> QED BY <2>2, <2>7 DEF PushedWell
<1> QED BY <1>2, <1>3

(* The operands and the brackets are counted right.                         *)
Counted(p, v) == Tally(p, IF p.lastwasand THEN 1 ELSE 0, v) /\ p.nbra = v

LEMMA CatTallies ==
  ASSUME NEW p, NEW v \in Nat, Tally(p, IF p.lastwasand THEN 1 ELSE 0, v),
         NEW c, c = Cat(p), RegexpAssumption
  PROVE  /\ c.err \in {"none"} \cup Limits
         /\ c.err = "none" => Tally(c, 0, v) /\ c.nbra = p.nbra /\ c.cursubid = p.cursubid
<1>1. PICK nd, nb : Tallied(p, nd, nb, IF p.lastwasand THEN 1 ELSE 0, v)
  BY DEF Tally
<1>2. CASE ~ p.lastwasand
  <2>1. c = p
    BY <1>2 DEF Cat
  <2>2. Tallied(p, nd, nb, 0, v)
    BY <1>1, <1>2
  <2>3. p.err = "none"
    BY <2>2 DEF Tallied
  <2> QED BY <2>1, <2>2, <2>3 DEF Tally
<1>3. CASE p.lastwasand
  <2> DEFINE r == evaluntil(p, "cat")
  <2>1. c = Pushed(r, "cat") /\ r = evaluntil(p, "cat")
    BY <1>3 DEF Cat
  <2> HIDE DEF r
  <2>2. Tallied(p, nd, nb, 1, v)
    BY <1>1, <1>3
  <2>3. "cat" \in Priorities /\ "cat" \in {"("} \cup Binary \cup Unary /\ "cat" \in Binary
    BY DEF Priorities, Binary
  <2>4. /\ Else(p, r) /\ r.err \in {"none"} \cup Limits
        /\ r.err = "none" => Tallied(r, nd, nb, 1, v)
    BY <2>1, <2>2, <2>3, EvaluationTallies
  <2>5. CASE r.err # "none"
    <3>1. c = r
      BY <2>1, <2>5 DEF Pushed
    <3> QED BY <2>4, <2>5, <3>1
  <2>6. CASE r.err = "none"
    <3>1. /\ c.err \in {"none"} \cup Limits
          /\ c.err = "none" => PushedWell(r, c, "cat", 1, v)
      BY <2>1, <2>3, <2>4, <2>6, PushTallies
    <3>2. PushedWell(r, c, "cat", 1, v) =>
             Tally(c, 0, v) /\ c.nbra = r.nbra /\ c.cursubid = r.cursubid
      BY <2>3 DEF PushedWell
    <3> QED BY <2>4, <3>1, <3>2 DEF Else
  <2> QED BY <2>5, <2>6
<1> QED BY <1>2, <1>3

LEMMA OperandTallies ==
  ASSUME NEW p, NEW v, v \in Nat, Counted(p, v), NEW x, NEW in \in Good,
         in = Inst(x.kind, spansOf(x), 0, 0, 0), NEW q, q = operand(p, x), RegexpAssumption
  PROVE  /\ q.err \in {"none"} \cup Limits
         /\ q.err = "none" => Counted(q, v) /\ q.lastwasand = TRUE
<1> DEFINE c == Cat(p)
           i == Len(c.prog) + 1
           r == [c EXCEPT !.prog = Append(@, in)]
<1>1. IF c.err # "none" THEN q = c ELSE q = [pushand(r, Node(i, i)) EXCEPT !.lastwasand = TRUE]
  BY DEF operand
<1>2. c = Cat(p) /\ i = Len(c.prog) + 1 /\ r = [c EXCEPT !.prog = Append(@, in)]
  OBVIOUS
<1> HIDE DEF c, i, r
<1>3. /\ c.err \in {"none"} \cup Limits
      /\ c.err = "none" => Tally(c, 0, v) /\ c.nbra = p.nbra
  BY <1>2, CatTallies DEF Counted
<1>4. CASE c.err # "none"
  BY <1>1, <1>3, <1>4
<1>5. CASE c.err = "none"
  <2>1. PICK nd, nb : Tallied(c, nd, nb, 0, v)
    BY <1>3, <1>5 DEF Tally
  <2>2. Stacked(c, nd, nb) /\ c \in Parsers
    BY <2>1 DEF Tallied, Stacked
  <2>3. q = [pushand(r, Node(i, i)) EXCEPT !.lastwasand = TRUE]
    BY <1>1, <1>5
  <2>4. /\ q.err \in {"none", "operand stack overflow"}
        /\ q.err = "none" => Operating(c, q, in)
    <3>1. i = Len(c.prog) + 1
      BY <1>2
    <3>2. r = [c EXCEPT !.prog = Append(c.prog, in)]
      BY <1>2
    <3>3. c \in Parsers /\ in \in Good
      BY <2>2
    <3> QED BY ONLY <1>5, <2>3, <3>1, <3>2, <3>3, OperandIsPushed
  <2>5. ASSUME q.err = "none"
        PROVE  Counted(q, v) /\ q.lastwasand = TRUE
    <3>1. /\ q.ators = c.ators /\ q.nbra = c.nbra /\ q.lastwasand = TRUE
          /\ Stacked(q, nd, nb) /\ Len(q.ands) = Len(c.ands) + 1
      BY <2>2, <2>4, <2>5, OperandStacked DEF Operating
    <3>2. Len(q.ands) = nd[Len(q.ators)] + 1
      <4> DEFINE a == nd[Len(c.ators)]
                 b == Len(c.ands)
      <4>1. a \in Nat /\ b = a + 0
        BY <2>1, <2>2, OpsAre DEF Tallied
      <4> HIDE DEF a, b
      <4>2. b + 1 = a + 1
        BY <4>1
      <4> QED BY <3>1, <4>2 DEF a, b
    <3>3. Tally(q, 1, v)
      BY <2>1, <2>5, <3>1, <3>2 DEF Tally, Tallied
    <3>4. q.nbra = v
      BY <1>3, <1>5, <3>1 DEF Counted
    <3> QED BY <3>1, <3>3, <3>4 DEF Counted
  <2> QED BY <2>4, <2>5 DEF Limits
<1> QED BY <1>4, <1>5

LEMMA OpenTallies ==
  ASSUME NEW p, NEW v \in Nat, Counted(p, v), NEW q, q = operator(p, "("), RegexpAssumption
  PROVE  /\ q.err \in {"none"} \cup Limits
         /\ q.err = "none" => Counted(q, v + 1) /\ q.lastwasand = FALSE
<1> DEFINE r == [p EXCEPT !.cursubid = @ + 1, !.nbra = @ + 1]
           c == Cat(r)
<1>1. PICK nd, nb : Tallied(p, nd, nb, IF p.lastwasand THEN 1 ELSE 0, v)
  BY DEF Counted, Tally
<1>2. Stacked(p, nd, nb) /\ p.err = "none" /\ p \in Parsers /\ p.nbra = v
  BY <1>1 DEF Tallied, Stacked, Counted
<1>3. IF p.cursubid + 1 >= NSubexp THEN q = rcerror(p, "too many subexpressions")
      ELSE q = Pushed(c, "(")
  BY DEF operator
<1>4. CASE p.cursubid + 1 >= NSubexp
  <2>1. "too many subexpressions" \in Errors /\ "too many subexpressions" # "none"
    BY DEF Errors
  <2>2. q.err = "too many subexpressions"
    BY <1>2, <1>3, <1>4, <2>1, ErrorTyped
  <2> QED BY <2>1, <2>2 DEF Limits
<1>5. CASE ~ (p.cursubid + 1 >= NSubexp)
  <2>1. q = Pushed(c, "(")
    BY <1>3, <1>5
  <2>2. /\ r \in Parsers /\ r.cursubid # 0 /\ r.nbra = v + 1 /\ r.err = "none"
        /\ r.ands = p.ands /\ r.ators = p.ators /\ r.prog = p.prog /\ r.lastwasand = p.lastwasand
    <3> DEFINE w == p.cursubid + 1
               b == v + 1
    <3>1. w \in 0 .. NSubexp - 1 /\ b \in Nat /\ w # 0
      <4> DEFINE a == p.cursubid
      <4>1. a \in Nat /\ NSubexp \in Nat /\ ~ (a + 1 >= NSubexp) /\ w = a + 1 /\ b = v + 1
        BY <1>2, <1>5 DEF Parsers, RegexpAssumption
      <4> HIDE DEF a, w, b
      <4> QED BY <4>1
    <3>2. r = [p EXCEPT !.cursubid = w, !.nbra = b]
      BY <1>2
    <3> HIDE DEF w, b, r
    <3>3. /\ r \in Parsers /\ r.cursubid = w /\ r.nbra = b /\ r.err = p.err
          /\ r.ands = p.ands /\ r.ators = p.ators /\ r.prog = p.prog /\ r.lastwasand = p.lastwasand
      BY <1>2, <3>1, <3>2 DEF Parsers
    <3> QED BY <1>2, <3>1, <3>3 DEF b
  <2>3. c = Cat(r)
    OBVIOUS
  <2> HIDE DEF r, c
  <2>4. Tally(r, IF r.lastwasand THEN 1 ELSE 0, v)
    <3>1. Stacked(r, nd, nb)
      BY <1>2, <2>2 DEF Stacked
    <3> QED BY <1>1, <2>2, <3>1 DEF Tally, Tallied
  <2>5. /\ c.err \in {"none"} \cup Limits
        /\ c.err = "none" => Tally(c, 0, v) /\ c.nbra = r.nbra /\ c.cursubid = r.cursubid
    BY <2>3, <2>4, CatTallies
  <2>6. CASE c.err # "none"
    <3>1. q = c
      BY <2>1, <2>6 DEF Pushed
    <3> QED BY <2>5, <2>6, <3>1
  <2>7. CASE c.err = "none"
    <3>1. PICK nd2, nb2 : Tallied(c, nd2, nb2, 0, v)
      BY <2>5, <2>7 DEF Tally
    <3>2. "(" \in {"("} \cup Binary \cup Unary /\ "(" \notin Binary /\ "(" \notin Unary
      BY DEF Binary, Unary
    <3>3. /\ q.err \in {"none"} \cup Limits
          /\ q.err = "none" => PushedWell(c, q, "(", 0, v)
      BY <2>1, <2>2, <2>5, <2>7, <3>1, <3>2, PushTallies
    <3>4. PushedWell(c, q, "(", 0, v) =>
             Tally(q, 0, v + 1) /\ q.nbra = c.nbra /\ q.lastwasand = FALSE
      <4> SUFFICES ASSUME PushedWell(c, q, "(", 0, v)
                   PROVE  Tally(q, 0, v + 1) /\ q.nbra = c.nbra /\ q.lastwasand = FALSE
        OBVIOUS
      <4>1. /\ Tally(q, IF "(" \in Binary THEN 0 ELSE 0, IF "(" = "(" THEN v + 1 ELSE v)
            /\ q.nbra = c.nbra /\ q.lastwasand = ("(" \in Unary)
        BY DEF PushedWell
      <4>2. ("(" \in Unary) = FALSE
        BY <3>2
      <4>3. (IF "(" \in Binary THEN 0 ELSE 0) = 0 /\ (IF "(" = "(" THEN v + 1 ELSE v) = v + 1
        OBVIOUS
      <4> QED BY <4>1, <4>2, <4>3
    <3> QED BY <2>2, <2>5, <2>7, <3>3, <3>4 DEF Counted
  <2> QED BY <2>6, <2>7
<1> QED BY <1>4, <1>5

LEMMA OperatorTallies ==
  ASSUME NEW p, NEW v \in Nat, Counted(p, v), p.lastwasand, NEW op \in {"|"} \cup Unary,
         NEW q, q = operator(p, op), RegexpAssumption
  PROVE  /\ q.err \in {"none"} \cup Limits
         /\ q.err = "none" => Counted(q, v) /\ q.lastwasand = (op # "|")
<1> DEFINE r == evaluntil(p, op)
<1>1. op \notin {")", "(", "start"} /\ op \in Priorities /\ op \in {"("} \cup Binary \cup Unary
  BY DEF Priorities, Binary, Unary
<1>2. q = Pushed(r, op) /\ r = evaluntil(p, op)
  BY <1>1 DEF operator
<1> HIDE DEF r
<1>3. PICK nd, nb : Tallied(p, nd, nb, 1, v)
  BY DEF Counted, Tally
<1>4. /\ Else(p, r) /\ r.err \in {"none"} \cup Limits
      /\ r.err = "none" => Tallied(r, nd, nb, 1, v)
  BY <1>1, <1>2, <1>3, EvaluationTallies
<1>5. CASE r.err # "none"
  <2>1. q = r
    BY <1>2, <1>5 DEF Pushed
  <2> QED BY <1>4, <1>5, <2>1
<1>6. CASE r.err = "none"
  <2>1. /\ q.err \in {"none"} \cup Limits
        /\ q.err = "none" => PushedWell(r, q, op, 1, v)
    BY <1>1, <1>2, <1>4, <1>6, PushTallies
  <2>2. /\ op \in Binary <=> op = "|"
        /\ op \in Unary <=> op # "|"
    BY DEF Binary, Unary
  <2>3. ASSUME PushedWell(r, q, op, 1, v)
        PROVE  Counted(q, v) /\ q.lastwasand = (op # "|")
    <3>1. Tally(q, IF op = "|" THEN 0 ELSE 1, v) /\ q.nbra = r.nbra /\ q.lastwasand = (op # "|")
      BY <1>1, <2>2, <2>3 DEF PushedWell
    <3>2. Tally(q, IF q.lastwasand THEN 1 ELSE 0, v)
      BY <3>1
    <3>3. q.nbra = v
      BY <1>4, <3>1 DEF Else, Counted
    <3> QED BY <3>1, <3>2, <3>3 DEF Counted
  <2> QED BY <2>1, <2>3
<1> QED BY <1>5, <1>6

LEMMA CloseTallies ==
  ASSUME NEW p, NEW v \in Nat, Counted(p, v), p.lastwasand, v > 0, NEW q, q = operator(p, ")")
  PROVE  /\ q.err \in {"none"} \cup Limits
         /\ q.err = "none" => Counted(q, v - 1) /\ q.lastwasand = TRUE
<1> DEFINE w == v - 1
           r == [p EXCEPT !.nbra = @ - 1]
           c == evaluntil(r, ")")
<1>1. PICK nd, nb : Tallied(p, nd, nb, 1, v)
  BY DEF Counted, Tally
<1>2. Stacked(p, nd, nb) /\ p.err = "none" /\ p \in Parsers /\ p.nbra = v
  BY <1>1 DEF Tallied, Stacked, Counted
<1>3. q = [c EXCEPT !.lastwasand = TRUE]
  <2>1. p.nbra # 0
    BY <1>2
  <2> QED BY <2>1 DEF operator
<1>4. /\ r \in Parsers /\ r.nbra = w /\ r.err = "none"
      /\ r.ands = p.ands /\ r.ators = p.ators
  <2>1. w \in Nat
    OBVIOUS
  <2>2. r = [p EXCEPT !.nbra = w]
    BY <1>2
  <2> HIDE DEF w, r
  <2> QED BY <1>2, <2>1, <2>2 DEF Parsers
<1>5. c = evaluntil(r, ")") /\ w = v - 1 /\ ")" \in Priorities
  BY DEF Priorities
<1> HIDE DEF r, c, w
<1>6. Tallied(r, nd, nb, 1, v)
  <2>1. Stacked(r, nd, nb)
    BY <1>2, <1>4 DEF Stacked
  <2> QED BY <1>1, <1>4, <2>1 DEF Tallied
<1>7. /\ c \in Parsers /\ Else(r, c) /\ c.err \in {"none"} \cup Limits
      /\ c.err = "none" => Tallied(c, nd, nb, 1, w)
  BY <1>5, <1>6, EvaluationTallies
<1>8. /\ q \in Parsers /\ q.ands = c.ands /\ q.ators = c.ators /\ q.err = c.err
      /\ q.lastwasand = TRUE /\ q.nbra = c.nbra
  <2>1. q \in Parsers
    BY <1>3, <1>7, ParserChanged
  <2> QED BY <1>3, <1>7, <2>1 DEF Parsers
<1>9. ASSUME q.err = "none"
      PROVE  Counted(q, w)
  <2>1. Tallied(c, nd, nb, 1, w)
    BY <1>7, <1>8, <1>9
  <2>2. Stacked(q, nd, nb)
    BY <1>8, <2>1 DEF Tallied, Stacked
  <2>3. Tallied(q, nd, nb, 1, w)
    BY <1>8, <1>9, <2>1, <2>2 DEF Tallied
  <2>4. q.nbra = w
    BY <1>4, <1>7, <1>8 DEF Else
  <2> QED BY <1>8, <2>3, <2>4 DEF Counted, Tally
<1> QED BY <1>5, <1>7, <1>8, <1>9

LEMMA LexedTallies ==
  ASSUME NEW p, NEW v \in Nat, Counted(p, v), NEW x, NEW q, q = Lexed(p, x)
  PROVE  /\ q.err \in {"none"} \cup Limits
         /\ q.err = "none" =>
              /\ Counted(q, v) /\ q.lastwasand = p.lastwasand
              /\ x.kind \in Classes => ~ Malformed(x)
<1>1. PICK nd, nb : Tallied(p, nd, nb, IF p.lastwasand THEN 1 ELSE 0, v)
  BY DEF Counted, Tally
<1>2. Stacked(p, nd, nb) /\ p.err = "none" /\ p \in Parsers /\ p.nbra = v
  BY <1>1 DEF Tallied, Stacked, Counted
<1>3. q.err \in {"none"} \cup Limits
  <2>1. /\ "too many character classes" \in Errors /\ "malformed '[]'" \in Errors
        /\ "too many character classes" \in Limits /\ "malformed '[]'" \in Limits
    BY DEF Errors, Limits
  <2>2. CASE q = rcerror(p, "too many character classes")
    BY <1>2, <2>1, <2>2, ErrorTyped
  <2>3. CASE q = rcerror(p, "malformed '[]'")
    BY <1>2, <2>1, <2>3, ErrorTyped
  <2>4. CASE q = p \/ q = [p EXCEPT !.nclass = @ + 1]
    <3>1. q.err = "none"
      BY <1>2, <2>4 DEF Parsers
    <3> QED BY <3>1
  <2> QED BY <2>2, <2>3, <2>4 DEF Lexed
<1>4. ASSUME q.err = "none"
      PROVE  /\ Counted(q, v) /\ q.lastwasand = p.lastwasand
             /\ x.kind \in Classes => ~ Malformed(x)
  <2>1. /\ Stacks(p, q) /\ q.nbra = p.nbra /\ q.lastwasand = p.lastwasand
        /\ x.kind \in Classes => ~ Malformed(x)
    BY <1>2, <1>4, LexedIs
  <2>2. Stacked(q, nd, nb)
    BY <1>2, <2>1 DEF Stacks, Stacked
  <2>3. Tallied(q, nd, nb, IF q.lastwasand THEN 1 ELSE 0, v)
    BY <1>1, <1>4, <2>1, <2>2 DEF Tallied, Stacks
  <2> QED BY <1>2, <2>1, <2>3 DEF Counted, Tally
<1> QED BY <1>3, <1>4

(* The parser after k tokens of an expression.                              *)
Exact(p, ts, d, k) ==
    /\ Counted(p, d[k])
    /\ p.lastwasand = (k >= 1 /\ ts[k].kind \in Finishing)
    /\ k = 0 => Len(p.ators) = 1

LEMMA TokenIsExact ==
  ASSUME NEW p, NEW ts \in Seq(Lexemes), NEW d, Formed(ts, d), NEW k \in Nat, Exact(p, ts, d, k),
         NEW l, l = k + 1, l \in 1 .. Len(ts), NEW x, x = ts[l], Legible(x),
         NEW q, q = Token(p, x), RegexpAssumption
  PROVE  /\ q.err \in {"none"} \cup Limits
         /\ q.err = "none" => Exact(q, ts, d, l)
<1> DEFINE r == Lexed(p, x)
           v == d[k]
<1>1. x \in Lexemes /\ x.kind \in Letters \cup Operators
  <2>1. x \in Lexemes
    BY ElementOfSeq
  <2> QED BY <2>1 DEF Lexemes
<1>2. r = Lexed(p, x)
  OBVIOUS
<1>3. IF r.err # "none" THEN q = r
      ELSE IF x.kind \in Operators THEN q = operator(r, x.kind) ELSE q = operand(r, x)
  BY DEF Token
<1> HIDE DEF r
<1>4. FormedAt(ts, d, k, l)
  BY FormedTokens
<1>5. /\ v \in Nat /\ d[l] \in Nat
      /\ x.kind = "(" => d[l] = v + 1
      /\ x.kind = ")" => v > 0 /\ d[l] = v - 1
      /\ x.kind \notin {"(", ")"} => d[l] = v
      /\ x.kind \notin Beginning => k >= 1 /\ ts[k].kind \in Finishing
  BY <1>4 DEF FormedAt
<1>6. Counted(p, v) /\ p.lastwasand = (k >= 1 /\ ts[k].kind \in Finishing)
  BY DEF Exact
<1> HIDE DEF v
<1>7. /\ r.err \in {"none"} \cup Limits
      /\ r.err = "none" =>
           /\ Counted(r, v) /\ r.lastwasand = p.lastwasand
           /\ x.kind \in Classes => ~ Malformed(x)
  BY <1>2, <1>5, <1>6, LexedTallies
<1>8. CASE r.err # "none"
  BY <1>3, <1>7, <1>8
<1>9. CASE r.err = "none"
  <2>1. Counted(r, v) /\ (x.kind \notin Beginning => r.lastwasand)
    BY <1>5, <1>6, <1>7, <1>9
  <2>2. /\ q.err \in {"none"} \cup Limits
        /\ q.err = "none" => Counted(q, d[l]) /\ q.lastwasand = (x.kind \in Finishing)
    <3>1. CASE x.kind = "("
      <4>1. "(" \in Operators /\ "(" \notin Finishing
        BY DEF Operators, Finishing, Letters, Unary
      <4>2. q = operator(r, "(")
        BY <1>3, <1>9, <3>1, <4>1
      <4>3. Counted(r, v) /\ v \in Nat
        BY <1>5, <2>1
      <4>4. /\ q.err \in {"none"} \cup Limits
            /\ q.err = "none" => Counted(q, v + 1) /\ q.lastwasand = FALSE
        BY ONLY <4>2, <4>3, RegexpAssumption, OpenTallies
      <4>5. (x.kind \in Finishing) = FALSE /\ d[l] = v + 1
        BY <1>5, <3>1, <4>1
      <4> QED BY <4>4, <4>5
    <3>2. CASE x.kind = ")"
      <4>1. ")" \in Operators /\ ")" \in Finishing /\ ")" \notin Beginning
        BY DEF Operators, Finishing, Beginning, Letters
      <4>2. q = operator(r, ")") /\ r.lastwasand
        BY <1>3, <1>9, <2>1, <3>2, <4>1
      <4> QED BY <1>5, <2>1, <3>2, <4>1, <4>2, CloseTallies
    <3>3. CASE x.kind \in {"|"} \cup Unary
      <4>1. /\ x.kind \in Operators /\ x.kind \notin Beginning /\ x.kind \notin {"(", ")"}
            /\ (x.kind \in Finishing) = (x.kind # "|")
        BY <3>3 DEF Operators, Finishing, Beginning, Letters, Unary
      <4>2. q = operator(r, x.kind) /\ r.lastwasand /\ d[l] = v
        BY <1>3, <1>5, <1>9, <2>1, <4>1
      <4>3. PICK op \in {"|"} \cup Unary : op = x.kind
        BY <3>3
      <4>4. Counted(r, v) /\ r.lastwasand /\ q = operator(r, op) /\ v \in Nat
        BY <1>5, <2>1, <4>2, <4>3
      <4>5. /\ q.err \in {"none"} \cup Limits
            /\ q.err = "none" => Counted(q, v) /\ q.lastwasand = (op # "|")
        BY ONLY <4>4, op \in {"|"} \cup Unary, RegexpAssumption, OperatorTallies
      <4>6. (x.kind \in Finishing) = (op # "|")
        BY <4>1, <4>3
      <4> QED BY <4>2, <4>5, <4>6
    <3>4. CASE x.kind \in Letters
      <4>1. x.kind \notin Operators /\ x.kind \in Finishing /\ x.kind \notin {"(", ")"}
        BY <3>4 DEF Operators, Finishing, Letters
      <4>2. q = operand(r, x) /\ d[l] = v
        BY <1>3, <1>5, <1>9, <4>1
      <4> DEFINE in == Inst(x.kind, spansOf(x), 0, 0, 0)
      <4>3. in \in Good /\ in = Inst(x.kind, spansOf(x), 0, 0, 0)
        <5>1. Readable(x)
          BY <1>1, <1>7, <1>9, <3>4 DEF Readable, Legible
        <5>2. in = Inst(x.kind, spansOf(x), 0, 0, 0)
          OBVIOUS
        <5> HIDE DEF in
        <5> QED BY <5>1, <5>2, LetterInstruction
      <4> HIDE DEF in
      <4> QED BY <1>5, <2>1, <4>1, <4>2, <4>3, OperandTallies
    <3> QED BY <1>1, <3>1, <3>2, <3>3, <3>4 DEF Operators, Unary
  <2>3. l >= 1 /\ l # 0
    OBVIOUS
  <2> QED BY <2>2, <2>3 DEF Exact
<1> QED BY <1>8, <1>9

LEMMA FreshIsExact ==
  ASSUME NEW ts \in Seq(Lexemes), NEW d, Formed(ts, d), RegexpAssumption
  PROVE  Exact(Fresh, ts, d, 0)
<1>1. d[0] = 0
  BY DEF Formed, Depths
<1>2. /\ Len(Fresh.ators) = 1 /\ Len(Fresh.ands) = 0 /\ Fresh.err = "none"
      /\ Fresh.lastwasand = FALSE /\ Fresh.nbra = 0
  BY DEF Fresh
<1>3. PICK nd, nb : Parsed(Fresh, nd, nb, ts, <<>>, 0)
  BY FreshParses DEF Proceeds
<1>4. Stacked(Fresh, nd, nb)
  BY <1>3 DEF Parsed, Consumed
<1>5. nd[1] = 0 /\ nb[1] = 0
  BY <1>4 DEF Stacked, Counts
<1>6. Tallied(Fresh, nd, nb, 0, 0)
  BY <1>2, <1>4, <1>5 DEF Tallied
<1>7. Counted(Fresh, d[0])
  <2>1. (IF Fresh.lastwasand THEN 1 ELSE 0) = 0
    BY <1>2
  <2> QED BY <1>1, <1>2, <1>6, <2>1 DEF Counted, Tally
<1>8. (0 >= 1 /\ ts[0].kind \in Finishing) = FALSE
  OBVIOUS
<1> QED BY <1>2, <1>7, <1>8 DEF Exact

(* At the end of an expression the program is made, unless a stack is full.   *)
LEMMA CloseIsExact ==
  ASSUME NEW p, NEW ts \in Seq(Lexemes), NEW d, Formed(ts, d), NEW k, k = Len(ts),
         Exact(p, ts, d, k), NEW q, q = Close(p), RegexpAssumption
  PROVE  q.err \in {"none"} \cup Limits
<1> DEFINE most == evaluntil(p, "start")
           ended == IF most.err # "none" THEN most ELSE operand(most, Lexeme("end"))
           whole == IF ended.err # "none" THEN ended ELSE evaluntil(ended, "start")
<1>1. q = IF whole.err # "none" THEN whole
          ELSE IF whole.nbra # 0 THEN rcerror(whole, "unmatched left paren")
          ELSE [whole EXCEPT !.prog = optimize(@), !.start = Last(whole.ands).first]
  BY DEF Close
<1>2. whole = IF ended.err # "none" THEN ended ELSE evaluntil(ended, "start")
  OBVIOUS
<1>3. ended = IF most.err # "none" THEN most ELSE operand(most, Lexeme("end"))
  OBVIOUS
<1>4. most = evaluntil(p, "start") /\ "start" \in Priorities /\ 0 \in Nat /\ "start" # ")"
  BY DEF Priorities
<1> HIDE DEF most, ended, whole
<1>5. d[k] = 0 /\ (k # 0 => p.lastwasand)
  <2>1. CASE ts = <<>>
    BY <2>1 DEF Formed, Depths
  <2>2. CASE ts # <<>>
    <3>1. Decent(ts, d, 1, k) /\ Depths(ts, d)
      BY <2>2 DEF Formed
    <3>2. d[k] = d[1 - 1] /\ ts[k].kind \in Finishing /\ k >= 1 /\ d[0] = 0
      BY <3>1 DEF Decent, Depths
    <3>3. (k >= 1 /\ ts[k].kind \in Finishing) = TRUE /\ 1 - 1 = 0
      BY <3>2
    <3>4. d[k] = 0
      BY <3>2, <3>3
    <3>5. p.lastwasand = TRUE
      BY <3>3 DEF Exact
    <3> QED BY <3>4, <3>5
  <2> QED BY <2>1, <2>2
<1>6. /\ Counted(p, 0) /\ p.lastwasand \in BOOLEAN
      /\ ~ p.lastwasand => Len(p.ators) = 1
  BY <1>5 DEF Exact
<1>7. /\ most.err \in {"none"} \cup Limits
      /\ most.err = "none" => Counted(most, 0)
  <2>1. PICK nd, nb : Tallied(p, nd, nb, IF p.lastwasand THEN 1 ELSE 0, 0)
    BY <1>6 DEF Counted, Tally
  <2>2. CASE p.lastwasand
    <3>1. Tallied(p, nd, nb, 1, 0)
      BY <2>1, <2>2
    <3>2. /\ Else(p, most) /\ most.err \in {"none"} \cup Limits
          /\ most.err = "none" => Tallied(most, nd, nb, 1, 0)
      BY <1>4, <3>1, EvaluationTallies
    <3>3. most.lastwasand = p.lastwasand /\ most.nbra = 0
      BY <1>6, <3>2 DEF Else, Counted
    <3> QED BY <2>2, <3>2, <3>3 DEF Counted, Tally
  <2>3. CASE ~ p.lastwasand
    <3>1. Stacked(p, nd, nb) /\ p.err = "none" /\ Len(p.ators) = 1
      BY <1>6, <2>1, <2>3 DEF Tallied
    <3>2. TopOp(p) = "sentinel"
      BY <3>1 DEF Stacked, TopOp
    <3>3. ~ Tight(p, "start")
      BY <3>2, Precedences DEF Tight
    <3>4. most = p
      BY <1>4, <3>1, <3>3, NothingToReduce
    <3> QED BY <1>6, <3>1, <3>4
  <2> QED BY <2>2, <2>3
<1>8. /\ ended.err \in {"none"} \cup Limits
      /\ ended.err = "none" => Counted(ended, 0) /\ ended.lastwasand = TRUE
  <2>1. CASE most.err # "none"
    BY <1>3, <1>7, <2>1
  <2>2. CASE most.err = "none"
    <3>1. EndInst \in Good
      BY DEF EndInst, Inst, Good, Instructions, Types
    <3>2. EndInst = Inst(Lexeme("end").kind, spansOf(Lexeme("end")), 0, 0, 0)
      BY DEF EndInst, Lexeme, spansOf, Classes
    <3>3. ended = operand(most, Lexeme("end"))
      BY <1>3, <2>2
    <3> QED BY <1>4, <1>7, <2>2, <3>1, <3>2, <3>3, OperandTallies
  <2> QED BY <2>1, <2>2
<1>9. /\ whole.err \in {"none"} \cup Limits
      /\ whole.err = "none" => whole.nbra = 0 /\ whole \in Parsers
  <2>1. CASE ended.err # "none"
    BY <1>2, <1>8, <2>1
  <2>2. CASE ended.err = "none"
    <3>1. whole = evaluntil(ended, "start") /\ ended.nbra = 0
      BY <1>2, <1>8, <2>2 DEF Counted
    <3>2. PICK nd, nb : Tallied(ended, nd, nb, 1, 0)
      BY <1>8, <2>2 DEF Counted, Tally
    <3>3. whole \in Parsers /\ Else(ended, whole) /\ whole.err \in {"none"} \cup Limits
      BY <1>4, <3>1, <3>2, EvaluationTallies
    <3> QED BY <3>1, <3>3 DEF Else
  <2> QED BY <2>1, <2>2
<1>10. CASE whole.err # "none"
  BY <1>1, <1>9, <1>10
<1>11. CASE whole.err = "none"
  <2> DEFINE o == optimize(whole.prog)
             f == Last(whole.ands).first
  <2>1. q = [whole EXCEPT !.prog = o, !.start = f]
    BY <1>1, <1>9, <1>11
  <2> HIDE DEF o, f
  <2>2. q.err = whole.err
    BY <1>9, <1>11, <2>1 DEF Parsers
  <2> QED BY <1>11, <2>2
<1> QED BY <1>10, <1>11

-----------------------------------------------------------------------------
(* What compiles: the theorem                                              *)

(* While an expression is compiled the counts are exact, and what stops the  *)
(* compiler is a limit or no expression.                                     *)
SyntaxInv ==
    /\ phase = "compile" => \A d : Formed(exstr, d) => Exact(re, exstr, d, exstrptr)
    /\ phase = "error" => re.err \in Limits \/ \A d : ~ Formed(exstr, d)

LEMMA SyntaxStarts ==
  ASSUME Init, RegexpAssumption
  PROVE  SyntaxInv
<1>1. phase = "compile" /\ exstr \in Patterns /\ exstrptr = 0 /\ re = Fresh
  BY DEF Init
<1>2. exstr \in Seq(Lexemes)
  BY <1>1 DEF RegexpAssumption
<1>3. ASSUME NEW d, Formed(exstr, d)
      PROVE  Exact(re, exstr, d, exstrptr)
  BY <1>1, <1>2, <1>3, FreshIsExact
<1> QED BY <1>1, <1>3 DEF SyntaxInv

LEMMA CompileIsExact ==
  ASSUME RegexpInv, SyntaxInv, Compile, RegexpAssumption
  PROVE  SyntaxInv'
<1> DEFINE q == IF exstrptr < Len(exstr) THEN Token(re, exstr[exstrptr + 1]) ELSE Close(re)
<1>1. /\ phase = "compile" /\ re' = q /\ exstrptr' = exstrptr + 1 /\ exstr' = exstr
      /\ phase' = IF q.err # "none" THEN "error"
                  ELSE IF exstrptr = Len(exstr) THEN "compiled" ELSE phase
  BY DEF Compile
<1>2. q = IF exstrptr < Len(exstr) THEN Token(re, exstr[exstrptr + 1]) ELSE Close(re)
  OBVIOUS
<1> HIDE DEF q
<1>3. exstr \in Patterns /\ exstrptr \in 0 .. Len(exstr)
  BY <1>1 DEF RegexpInv, CompilerInv
<1>4. exstr \in Seq(Lexemes) /\ Len(exstr) \in Nat
  BY <1>3 DEF RegexpAssumption
<1>5. ASSUME NEW d, Formed(exstr, d)
      PROVE  /\ q.err \in {"none"} \cup Limits
             /\ q.err = "none" /\ exstrptr < Len(exstr) => Exact(q, exstr, d, exstrptr + 1)
  <2>1. Exact(re, exstr, d, exstrptr)
    BY <1>1, <1>5 DEF SyntaxInv
  <2>2. CASE exstrptr < Len(exstr)
    <3> DEFINE l == exstrptr + 1
               x == exstr[l]
    <3>1. l = exstrptr + 1 /\ l \in 1 .. Len(exstr) /\ exstrptr \in Nat
      BY <1>3, <1>4, <2>2
    <3>2. x = exstr[l] /\ x \in Lexemes /\ q = Token(re, x)
      BY <1>2, <1>4, <2>2, <3>1
    <3>3. Legible(x)
      BY <3>2, ClassesAreLegible
    <3> HIDE DEF l, x
    <3>4. /\ q.err \in {"none"} \cup Limits
          /\ q.err = "none" => Exact(q, exstr, d, l)
      BY <1>4, <1>5, <2>1, <3>1, <3>2, <3>3, TokenIsExact
    <3> QED BY <3>1, <3>4
  <2>3. CASE ~ (exstrptr < Len(exstr))
    <3>1. exstrptr = Len(exstr) /\ q = Close(re)
      BY <1>2, <1>3, <1>4, <2>3
    <3> QED BY <1>4, <1>5, <2>1, <2>3, <3>1, CloseIsExact
  <2> QED BY <2>2, <2>3
<1>6. CASE q.err # "none"
  <2>1. phase' = "error"
    BY <1>1, <1>6
  <2>2. q.err \in Limits \/ \A d : ~ Formed(exstr, d)
    BY <1>5, <1>6
  <2> QED BY <1>1, <2>1, <2>2 DEF SyntaxInv
<1>7. CASE q.err = "none" /\ exstrptr < Len(exstr)
  <2>1. phase' = "compile"
    BY <1>1, <1>7
  <2>2. \A d : Formed(exstr, d) => Exact(q, exstr, d, exstrptr + 1)
    BY <1>5, <1>7
  <2> QED BY <1>1, <2>1, <2>2 DEF SyntaxInv
<1>8. CASE q.err = "none" /\ ~ (exstrptr < Len(exstr))
  <2>1. exstrptr = Len(exstr)
    BY <1>3, <1>4, <1>8
  <2>2. phase' = "compiled"
    BY <1>1, <1>8, <2>1
  <2> QED BY <2>2 DEF SyntaxInv
<1> QED BY <1>6, <1>7, <1>8

LEMMA SyntaxSteps ==
  ASSUME RegexpInv, SyntaxInv, [Next]_vars, RegexpAssumption
  PROVE  SyntaxInv'
<1>1. CASE Compile
  BY <1>1, CompileIsExact
<1>2. CASE Next /\ ~ Compile
  <2>1. phase \notin {"compile", "error"} => Runnable(re)
    <3>1. <<>> \in Seq(Nat)
      OBVIOUS
    <3> QED BY <3>1 DEF RegexpInv, CompilerInv, Right
  <2>2. phase \notin {"compile", "error"}
    BY <1>2, <2>1, MachineSteps DEF RegexpInv
  <2>3. phase' \notin {"compile", "error"}
    BY <1>2, <2>2 DEF Next, Apply, GiveUp, Character, Bracketed, Line, Choice, Consume, Match, Advance
  <2> QED BY <2>3 DEF SyntaxInv
<1>3. CASE UNCHANGED vars
  BY <1>3 DEF vars, SyntaxInv
<1> QED BY <1>1, <1>2, <1>3

LEMMA SyntaxIsRight ==
  ASSUME RegexpInv, SyntaxInv, RegexpAssumption
  PROVE  CompilesTheGrammar
<1>1. exstr \in Seq(Lexemes) /\ <<>> \in Seq(Nat)
  BY DEF RegexpInv, CompilerInv, RegexpAssumption
<1>2. ASSUME phase = "compiled"
      PROVE  Meanings(exstr, <<>>) # {}
  <2>1. Accepted(re, <<>>) \in Meanings(exstr, <<>>)
    BY <1>1, <1>2 DEF RegexpInv, CompilerInv, Right
  <2> QED BY <2>1
<1>3. ASSUME phase = "error", re.err \notin Limits
      PROVE  Meanings(exstr, <<>>) = {}
  <2>1. \A d : ~ Formed(exstr, d)
    BY <1>3 DEF SyntaxInv
  <2> QED BY <1>1, <2>1, MeaningIsFormed
<1> QED BY <1>2, <1>3 DEF CompilesTheGrammar, Limits

(* A pattern compiles if and only if the grammar has it, unless one of the   *)
(* fixed stacks and tables is full: the reductions, which look at priorities *)
(* and never at what stands before an operator, take no other pattern and    *)
(* refuse none (regcomp.c).                                                 *)
THEOREM CompilesExactlyTheGrammar == Spec => []CompilesTheGrammar
<1>1. Init => RegexpInv /\ SyntaxInv
  BY ItStartsRight, SyntaxStarts, RegexpAssumption
<1>2. RegexpInv /\ SyntaxInv /\ [Next]_vars => (RegexpInv /\ SyntaxInv)'
  BY RegexpSteps, SyntaxSteps, RegexpAssumption
<1>3. RegexpInv /\ SyntaxInv => CompilesTheGrammar
  BY SyntaxIsRight, RegexpAssumption
<1> QED BY <1>1, <1>2, <1>3, PTL DEF Spec
=============================================================================
