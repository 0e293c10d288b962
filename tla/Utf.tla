-------------------------------- MODULE Utf --------------------------------
(* UTF-8 as utf.c encodes and decodes it.  Bytes and runes are numbers; the  *)
(* shifts and masks of the code are quotients and remainders by powers of    *)
(* Bitx bits.  A form is the number of bytes of an encoding.                 *)
EXTENDS Naturals, Sequences, SequencesExt, FiniteSetsExt

UTFmax == 6
Runeerror == 128
Byte == 0 .. 255
Tx == 128
T == <<0, 192, 224, 240, 248, 252, 254>>        \* the mark of a first byte
Lead == <<128, 32, 16, 8, 4, 2>>                \* 2^Bit1, ..., 2^Bit6
RuneMax == <<127, 2047, 65535, 2097151, 67108863, 2147483647>>
Power(n) == <<1, 64, 4096, 262144, 16777216, 1073741824>>[n + 1]

(* runetochar: the forms after the second stop one short of their last rune, *)
(* and the fourth is marked as the third is.                                 *)
Mark == [T EXCEPT ![4] = T[3]]
FormOf(r) == IF r <= RuneMax[2] THEN IF r <= RuneMax[1] THEN 1 ELSE 2
             ELSE Min({f \in 3 .. UTFmax : r < RuneMax[f] \/ f = UTFmax})
SlipRuneToChar(r) ==
    LET n == FormOf(r)
        tail == [i \in 1 .. n - 1 |-> Tx + ((r \div Power(n - i)) % 64)]
    IN <<(Mark[n] + (r \div Power(n - 1))) % 256>> \o tail
RuneToChar(r) ==
    LET n == FormOf(r)
        tail == [i \in 1 .. n - 1 |-> Tx + ((r \div Power(n - 1 - i)) % 64)]
    IN <<(Mark[n] + (r \div Power(n - 1))) % 256>> \o tail

(* chartorune: the rune and the number of bytes it takes.                    *)
Continues(b) == b \in Tx .. 191
Bad == [rune |-> Runeerror, size |-> 1]
LeadForm(b) == IF b < Tx THEN 1
               ELSE CHOOSE n \in 2 .. UTFmax + 1 :
                        (n = UTFmax + 1 \/ b < T[n + 1]) /\ (n = 2 \/ b >= T[n])
Value(s, n) == LET l[i \in 1 .. n] == IF i = 1 THEN s[1] % Lead[n]
                                       ELSE l[i - 1] * 64 + (s[i] - Tx)
               IN l[n]
CharToRune(s) ==
    LET n == LeadForm(s[1]) IN
    IF n = 1 THEN [rune |-> s[1], size |-> 1]
    ELSE IF \/ n > UTFmax \/ s[1] < T[2]
            \/ \E i \in 2 .. n : ~ Continues(s[i])
         THEN Bad
         ELSE LET l == Value(s, n) IN
              IF l <= RuneMax[n - 1] \/ (n = 3 /\ l \in 55296 .. 57343)
              THEN Bad
              ELSE [rune |-> l, size |-> n]

(* fullrune: do the bytes read so far make up a rune?  Three bytes always do.*)
FullRune(s) ==
    LET c == s[1]  n == Len(s) IN
    \/ c < Tx
    \/ \E k \in 3 .. 5 : c > T[k] /\ n > k
    \/ n > 1 /\ (c < T[3] \/ n > 2)

Encoded(text) == FlattenSeq([i \in DOMAIN text |-> RuneToChar(text[i])])
=============================================================================
