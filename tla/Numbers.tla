------------------------------- MODULE Numbers -------------------------------
(***************************************************************************)
(* Exact arithmetic (src/src/arith.c) in a build with the gmp library: a   *)
(* small integer is a fixnum, a large one a bignum, a quotient that is     *)
(* neither a rational; a flonum makes the result of any operation one.     *)
(* The library's integers and rationals are the mathematical ones, and     *)
(* flonums are exact: what rounding a double does is left out, as are      *)
(* complex numbers.                                                        *)
(*                                                                         *)
(* A number is [tag, num, den].  FixnumMax is LONG_MAX >> 1, one less than *)
(* a power of two.                                                         *)
(***************************************************************************)
EXTENDS Integers

CONSTANT FixnumMax
ASSUME FixnumMaxAssumption == FixnumMax \in Nat /\ FixnumMax > 0

LongMax == 2 * FixnumMax + 1

IsFixnum(n) == - FixnumMax <= n /\ n <= FixnumMax
Abs(n) == IF n < 0 THEN - n ELSE n

MakeFixnum(n) == [tag |-> "fixnum", num |-> n, den |-> 1]       \* INT2FIX
MakeBignum(n) == [tag |-> "bignum", num |-> n, den |-> 1]       \* arc_mkbignuml
NotANumber == [tag |-> "invalid", num |-> 0, den |-> 1]         \* an error was raised

NumberTags == {"fixnum", "bignum", "rational", "flonum"}
Number(x) == x.tag \in NumberTags

\* C division: the quotient is truncated.
Truncated(p, q) == IF (p < 0) = (q < 0) THEN Abs(p) \div Abs(q) ELSE - (Abs(p) \div Abs(q))
Remainder(p, q) == p - q * Truncated(p, q)
\* mpz_fdiv: the quotient is rounded down.
Floored(p, q) == IF q > 0 THEN p \div q ELSE (- p) \div (- q)

\* p/q in lowest terms, q > 0: mpq_canonicalize.
Gcd(p, q) == IF p = 0 THEN Abs(q)
             ELSE CHOOSE d \in 1..Abs(q) :
                    /\ p % d = 0 /\ q % d = 0
                    /\ \A e \in (d + 1)..Abs(q) : ~ (p % e = 0 /\ q % e = 0)
Ratio(tag, p, q) == LET s == IF q < 0 THEN - Gcd(p, q) ELSE Gcd(p, q)
                    IN  [tag |-> tag, num |-> Truncated(p, s), den |-> Truncated(q, s)]

\* arc_mkrationall: mpq_set_si takes the denominator as unsigned.
MakeRational(p, q) == Ratio("rational", p, IF q < 0 THEN 2 * (LongMax + 1) + q ELSE q)

-----------------------------------------------------------------------------
(* Results in the narrowest type *)

\* __arc_bignum_fixnum
BignumFixnum(n) == IF IsFixnum(n) THEN MakeFixnum(n) ELSE MakeBignum(n)

\* __arc_rational_int
RationalInt(x) == IF x.den # 1 THEN x ELSE BignumFixnum(x.num)

-----------------------------------------------------------------------------
(* Operations on two numbers.  TYPE_CASES coerces both to the wider type.    *)

Rank(x) == CASE x.tag = "fixnum" -> 0 [] x.tag = "bignum" -> 1
             [] x.tag = "rational" -> 2 [] x.tag = "flonum" -> 3

\* p/q of the exact result as a number of the wider type of the arguments.
TypeCases(x, y, p, q) ==
    LET wider == IF Rank(x) < Rank(y) THEN Rank(y) ELSE Rank(x)
    IN  CASE wider = 3 -> Ratio("flonum", p, q)
          [] wider = 2 -> RationalInt(Ratio("rational", p, q))
          [] OTHER -> BignumFixnum(p)

\* The number of bits of a long's magnitude.
Hibit(n) == IF n = 0 THEN 0 ELSE CHOOSE k \in 1..n : 2^(k - 1) <= n /\ n < 2^k

BothFixnums(x, y) == x.tag = "fixnum" /\ y.tag = "fixnum"

\* A sum of fixnums always fits a long.
Add2(x, y) ==
    IF BothFixnums(x, y)
    THEN IF Abs(x.num + y.num) > FixnumMax THEN MakeBignum(x.num + y.num)
         ELSE MakeFixnum(x.num + y.num)
    ELSE TypeCases(x, y, x.num * y.den + y.num * x.den, x.den * y.den)

Sub2(x, y) ==
    IF BothFixnums(x, y)
    THEN IF Abs(x.num - y.num) > FixnumMax THEN MakeBignum(x.num - y.num)
         ELSE MakeFixnum(x.num - y.num)
    ELSE TypeCases(x, y, x.num * y.den - y.num * x.den, x.den * y.den)

\* The product of fixnums is left to a long only where its bits fit.
Mul2(x, y) ==
    IF BothFixnums(x, y)
    THEN IF Hibit(Abs(x.num)) + Hibit(Abs(y.num)) >= Hibit(FixnumMax)
         THEN BignumFixnum(x.num * y.num)
         ELSE MakeFixnum(x.num * y.num)
    ELSE TypeCases(x, y, x.num * y.num, x.den * y.den)

\* div_bignum divides as rationals.
Div2(x, y) ==
    CASE y.num = 0 -> NotANumber
      [] y.num # 0 /\ BothFixnums(x, y) ->
           IF Remainder(x.num, y.num) # 0 THEN MakeRational(x.num, y.num)
           ELSE IF Abs(Truncated(x.num, y.num)) > FixnumMax
           THEN MakeBignum(Truncated(x.num, y.num))
           ELSE MakeFixnum(Truncated(x.num, y.num))
      [] y.num # 0 /\ Rank(x) < 2 /\ Rank(y) < 2 /\ ~ BothFixnums(x, y) ->
           RationalInt(Ratio("rational", x.num, y.num))
      [] OTHER -> TypeCases(x, y, x.num * y.den, x.den * y.num)

\* The integer below, and one more past the middle.
RoundUp(base, p, q) ==
    LET twice == 2 * (p - base * q)
    IN  twice > q \/ (twice = q /\ base % 2 = 1)

\* What the second argument of idiv and mod becomes: it may be of any type.
AsBignum(y) == CASE y.tag = "flonum" -> Truncated(y.num, y.den)
                      + (IF RoundUp(Floored(y.num, y.den), y.num, y.den) THEN 1 ELSE 0)
                 [] OTHER -> Truncated(y.num, y.den)

Divisible(x, y) == Rank(x) < 2 /\ AsBignum(y) # 0

Idiv2(x, y) ==
    CASE ~ Divisible(x, y) -> NotANumber
      [] Divisible(x, y) /\ BothFixnums(x, y) -> MakeFixnum(Truncated(x.num, y.num))
      [] OTHER -> BignumFixnum(Floored(x.num, AsBignum(y)))

\* The remainder of fixnums, corrected.
Mod2(x, y) ==
    CASE ~ Divisible(x, y) -> NotANumber
      [] Divisible(x, y) /\ BothFixnums(x, y) ->
           LET r == Remainder(x.num, y.num)
               differ == (x.num < 0 /\ y.num > 0) \/ (x.num > 0 /\ y.num < 0)
           IN  MakeFixnum(IF differ THEN Remainder(r + y.num, y.num) ELSE r)
      [] OTHER -> BignumFixnum(x.num - AsBignum(y) * Floored(x.num, AsBignum(y)))

-----------------------------------------------------------------------------
(* (coerce x 'int): half way between two integers the even one is taken.     *)

FlonumToInt(x) ==
    IF x.num > FixnumMax * x.den \/ x.num < - FixnumMax * x.den
    THEN MakeBignum(Truncated(x.num, x.den))
    ELSE MakeFixnum(Truncated(x.num, x.den)
                    + (IF RoundUp(Floored(x.num, x.den), x.num, x.den) THEN 1 ELSE 0))

RationalToInt(x) ==
    LET whole == Truncated(x.num, x.den)
    IN  BignumFixnum(IF RoundUp(whole, x.num, x.den) THEN whole + 1 ELSE whole)

ToInt(x) == CASE x.tag \in {"fixnum", "bignum"} -> x
              [] x.tag = "flonum" -> FlonumToInt(x)
              [] x.tag = "rational" -> RationalToInt(x)
              [] OTHER -> NotANumber
=============================================================================
