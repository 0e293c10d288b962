------------------------------- MODULE Rregexec ------------------------------
(***************************************************************************)
(* Matching a regular expression (src/src/rregexec.c, regaux.c and the     *)
(* calls of src/src/re.c): the pattern is compiled token by token, then    *)
(* the program runs over the text, one character at a time, and for each   *)
(* all its threads in turn, one instruction at a time.                     *)
(***************************************************************************)
EXTENDS Regular

CONSTANTS Patterns,     \* the patterns that are compiled
          Texts,        \* the texts they are applied to
          ListSize,     \* entries of a list of threads (LISTSIZE)
          Ms            \* submatches asked for (the 10 of arc_regexp_match)

ASSUME RegexpAssumption ==
    /\ NStack \in Nat /\ NSubexp \in Nat \ {0} /\ NClass \in Nat /\ Ms \in Nat \ {0}
    /\ Patterns \subseteq Seq(Lexemes) /\ Texts \subseteq Seq(Nat)

VARIABLES phase,        \* "compile", "error", "compiled", "match" between two
                        \* characters, "run" at one, "done" or "overrun"
          exstr,        \* the pattern
          exstrptr,     \* the tokens read of it
          re,           \* the parser, then the program
          text,         \* the text
          ptr,          \* the index of the character
          tl,           \* the threads that are at it
          tlp,          \* the one that runs
          inst,         \* the instruction it has reached, 0 after the last one
          nl,           \* the threads that are past it
          mp,           \* the best match so far and its submatches
          matchstart    \* Reljunk's matchstart

vars == <<phase, exstr, exstrptr, re, text, ptr, tl, tlp, inst, nl, mp, matchstart>>

Unset == [csp |-> -1, cep |-> -1]
NoSubs(n) == [k \in 0 .. n - 1 |-> Unset]

-----------------------------------------------------------------------------
(* Lists of threads *)

\* A thread at ip with the submatches se joins the list, unless one of the
\* entries from the k-th on is there already: the earlier start then wins.
Renewthread(list, k, ip, se) ==
    LET same == {n \in k .. Len(list) : list[n].inst = ip}
    IN  IF same = {} THEN Append(list, [inst |-> ip, se |-> se])
        ELSE LET n == CHOOSE n \in same : \A m \in same : n <= m
             IN  IF se[0].csp < list[n].se[0].csp
                 THEN [list EXCEPT ![n].se = se] ELSE list

Emptythread(list, ip, csp) ==
    Renewthread(list, 1, ip, [NoSubs(NSubexp) EXCEPT ![0].csp = csp])

\* The slip: the first match found stays.
SlipRenewmatch(m, se) == IF m[0].csp = -1 THEN [n \in 0 .. Ms - 1 |-> se[n]] ELSE m

\* The match se replaces the one at hand if it starts earlier, or ends later.
Renewmatch(m, se) ==
    IF \/ m[0].csp = -1
       \/ se[0].csp < m[0].csp
       \/ se[0].csp = m[0].csp /\ se[0].cep > m[0].cep
    THEN [n \in 0 .. Ms - 1 |-> IF n < NSubexp THEN se[n] ELSE Unset]
    ELSE m

-----------------------------------------------------------------------------
(* One character *)

Within(spans, rune) ==
    \E k \in DOMAIN spans : spans[k][1] <= rune /\ rune <= spans[k][2]

\* Whether an instruction consumes the rune; -1 is the end of the text.
Consumes(in, rune) ==
    CASE in.type \in {"rune", "class"} -> Within(in.spans, rune)
      [] in.type = "nclass" -> ~ Within(in.spans, rune)
      [] in.type = "any" -> rune # Newline

\* The rune the program must start with, if it starts with one.
StartRune ==
    LET first == re.prog[re.start]
    IN  IF first.type = "rune" /\ first.spans[1][1] < 128 THEN first.spans[1][1] ELSE 0

-----------------------------------------------------------------------------

Init ==
    /\ phase = "compile"
    /\ exstr \in Patterns
    /\ exstrptr = 0
    /\ re = Fresh
    /\ text = <<>> /\ ptr = 0
    /\ tl = <<>> /\ tlp = 0 /\ inst = 0 /\ nl = <<>>
    /\ mp = NoSubs(Ms) /\ matchstart = -1

\* regcomp1: a token, or the end of the pattern.
Compile ==
    /\ phase = "compile"
    /\ LET q == IF exstrptr < Len(exstr) THEN Token(re, exstr[exstrptr + 1])
                ELSE Close(re)
       IN  /\ re' = q
           /\ exstrptr' = exstrptr + 1
           /\ phase' = IF q.err # "none" THEN "error"
                       ELSE IF exstrptr = Len(exstr) THEN "compiled" ELSE phase
    /\ UNCHANGED <<exstr, text, ptr, tl, tlp, inst, nl, mp, matchstart>>

\* The expression is applied to a string.
Apply ==
    /\ phase = "compiled"
    /\ text' \in Texts
    /\ phase' = "match"
    /\ UNCHANGED <<exstr, exstrptr, re, ptr, tl, tlp, inst, nl, mp, matchstart>>

\* No thread waits and the start rune is not ahead: nothing more can match.
GiveUp ==
    /\ phase = "match"
    /\ StartRune # 0 /\ nl = <<>>
    /\ \A k \in (ptr + 1) .. Len(text) : text[k] # StartRune
    /\ phase' = "done"
    /\ UNCHANGED <<exstr, exstrptr, re, text, ptr, tl, tlp, inst, nl, mp, matchstart>>

\* The code compares the end of a list with an address below it (nelem of a
\* pointer is 0), so nothing stops a list that outgrows its space.
Overrun == Len(tl') >= ListSize \/ Len(nl') >= ListSize

\* The machine takes a character (or the end of the text); with no thread
\* waiting it first skips to the next start rune.
Character ==
    /\ phase = "match"
    /\ LET skip == StartRune # 0 /\ nl = <<>>
           ahead == {k \in ptr .. (Len(text) - 1) : text[k + 1] = StartRune}
           at == IF skip THEN CHOOSE k \in ahead : \A j \in ahead : k <= j ELSE ptr
       IN  /\ skip => ahead # {}
           /\ tl' = Emptythread(nl, re.start, at)
           /\ ptr' = at
    /\ nl' = <<>>
    /\ tlp' = 1 /\ inst' = tl'[1].inst
    /\ phase' = IF Overrun THEN "overrun" ELSE "run"
    /\ UNCHANGED <<exstr, exstrptr, re, text, mp, matchstart>>

-----------------------------------------------------------------------------
(* The instructions.  The submatches of a thread are changed in its entry   *)
(* of the list.                                                             *)

current == re.prog[inst]
char == IF ptr < Len(text) THEN text[ptr + 1] ELSE -1

At(types) == phase = "run" /\ inst # 0 /\ current.type \in types

\* The thread goes on, or the next one of the list runs.
Go == inst' = current.next /\ tlp' = tlp
Leave ==
    /\ tlp' = tlp + 1
    /\ inst' = IF tlp < Len(tl) THEN tl[tlp + 1].inst ELSE 0

Bracketed ==
    /\ At({"(", ")"})
    /\ tl' = [tl EXCEPT ![tlp].se[current.subid][IF current.type = "(" THEN "csp" ELSE "cep"] = ptr]
    /\ Go
    /\ UNCHANGED <<phase, exstr, exstrptr, re, text, ptr, nl, mp, matchstart>>

Line ==
    /\ At({"bol", "eol"})
    /\ IF IF current.type = "bol" THEN ptr = 0 \/ text[ptr] = Newline
                            ELSE ptr = Len(text) \/ char = Newline
       THEN Go ELSE Leave
    /\ UNCHANGED <<phase, exstr, exstrptr, re, text, ptr, tl, nl, mp, matchstart>>

\* The right choice is for later; it may join the threads that come after
\* this one.
Choice ==
    /\ At({"or"})
    /\ tl' = Renewthread(tl, tlp, current.right, tl[tlp].se)
    /\ Go
    /\ nl' = nl
    /\ phase' = IF Overrun THEN "overrun" ELSE phase
    /\ UNCHANGED <<exstr, exstrptr, re, text, ptr, mp, matchstart>>

Consume ==
    /\ At({"rune", "any", "class", "nclass"})
    /\ nl' = IF Consumes(current, char) THEN Renewthread(nl, 1, current.next, tl[tlp].se) ELSE nl
    /\ Leave
    /\ tl' = tl
    /\ phase' = IF Overrun THEN "overrun" ELSE phase
    /\ UNCHANGED <<exstr, exstrptr, re, text, ptr, mp, matchstart>>

Match ==
    /\ At({"end"})
    /\ matchstart' = IF matchstart < 0 THEN tl[tlp].se[0].csp ELSE matchstart
    /\ tl' = [tl EXCEPT ![tlp].se[0].cep = ptr]
    /\ mp' = Renewmatch(mp, tl'[tlp].se)
    /\ Leave
    /\ UNCHANGED <<phase, exstr, exstrptr, re, text, ptr, nl>>

\* All threads have had their turn.
Advance ==
    /\ phase = "run" /\ inst = 0
    /\ phase' = IF ptr = Len(text) THEN "done" ELSE "match"
    /\ ptr' = ptr + 1
    /\ UNCHANGED <<exstr, exstrptr, re, text, tl, tlp, inst, nl, mp, matchstart>>

Next ==
    \/ Compile \/ Apply \/ GiveUp \/ Character
    \/ Bracketed \/ Line \/ Choice \/ Consume \/ Match \/ Advance

Spec == Init /\ [][Next]_vars

-----------------------------------------------------------------------------

\* A pattern compiles if and only if it is an expression (or a stack, the
\* subexpressions or the classes run out): the reductions never accept what
\* the grammar does not, though no operator looks at what stands before it.
CompilesTheGrammar ==
    /\ phase = "compiled" => Meanings(exstr, <<>>) # {}
    /\ phase = "error" =>
         \/ Meanings(exstr, <<>>) = {}
         \/ re.err \in {"operand stack overflow", "operator stack overflow",
                        "too many subexpressions", "too many character classes",
                        "malformed '[]'"}

\* The machine finds the leftmost match and among those the longest, or
\* none where there is none: the pruning of threads and the skipping to the
\* start rune lose nothing.
FindsLeftmostLongest ==
    phase = "done" =>
        \E spans \in Meanings(exstr, text) :
            IF spans = {} THEN mp = NoSubs(Ms) /\ matchstart = -1
            ELSE /\ <<mp[0].csp, mp[0].cep>> = Leftmost(spans)
                 /\ \E s \in spans : s[1] = matchstart

\* What a bracket captured lies inside the match and is a text its group
\* stands for, also when the group was repeated or abandoned on the way.
CapturesBelongToGroups ==
    phase = "done" =>
        \A n \in 1 .. Ms - 1 :
            mp[n].csp # -1 =>
                /\ mp[0].csp <= mp[n].csp /\ mp[n].cep <= mp[0].cep
                /\ \E spans \in GroupMeanings(exstr, text, n) :
                      <<mp[n].csp, mp[n].cep>> \in spans

\* rregexec1 reports a list that ran out of space to its caller, which
\* starts again with a longer one (rregexec.c:47-49): no list outgrows the
\* space it was given.
ListsStayInBounds == phase # "overrun"
=============================================================================
