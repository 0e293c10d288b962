--------------------------- MODULE WindingProofs ---------------------------
(***************************************************************************)
(* Theorems about Winding: whatever program code does, in thunks or out of *)
(* them, code runs inside of the extents and under the handler that its    *)
(* continuation says, for any number of winds and continuations.           *)
(***************************************************************************)
EXTENDS Winding, SequencesExt, SequenceTheorems,
        FiniteSetTheorems, WellFoundedInduction, TLAPS

-----------------------------------------------------------------------------
(* Facts about numbers and sequences *)

(* A set of natural numbers has a least element. *)
LEMMA LeastNumber ==
  ASSUME NEW S \in SUBSET Nat, S # {}
  PROVE  \E m \in S : \A k \in S : m <= k
<1> DEFINE Segments == {S \cap (0 .. m) : m \in S}
<1>1. IsWellFoundedOn(StrictSubsetOrdering(Nat), FiniteSubsetsOf(Nat))
  BY FS_StrictSubsetOrderingWellFounded
<1>2. Segments \subseteq FiniteSubsetsOf(Nat)
  <2>1. \A m \in S : IsFiniteSet(S \cap (0 .. m))
    <3> TAKE m \in S
    <3>1. IsFiniteSet(0 .. m)
      BY FS_Interval
    <3> QED BY <3>1, FS_Subset
  <2> QED BY <2>1 DEF FiniteSubsetsOf
<1>3. Segments # {}
  OBVIOUS
<1> HIDE DEF Segments
<1>4. PICK x \in Segments : \A y \in Segments : ~ (<<y, x>> \in StrictSubsetOrdering(Nat))
  BY <1>1, <1>2, <1>3, WFMin
<1> USE DEF Segments
<1>5. PICK m \in S : x = S \cap (0 .. m)
  BY <1>4
<1>6. \A k \in S : m <= k
  <2> SUFFICES ASSUME NEW k \in S, k < m PROVE FALSE
    OBVIOUS
  <2> DEFINE y == S \cap (0 .. k)
  <2>1. y \in Segments /\ y \subseteq x /\ m \in x /\ m \notin y /\ x \subseteq Nat
    BY <1>5
  <2>2. <<y, x>> \in StrictSubsetOrdering(Nat)
    BY <2>1 DEF StrictSubsetOrdering
  <2> QED BY <1>4, <2>1, <2>2
<1> QED BY <1>6

(***************************************************************************)
(* Prefixes of sequences.                                                  *)
(***************************************************************************)
LEMMA PrefixByElements ==
  ASSUME NEW S, NEW s \in Seq(S), NEW t \in Seq(S)
  PROVE  IsPrefix(s, t) <=> Len(s) <= Len(t) /\ \A i \in 1 .. Len(s) : s[i] = t[i]
<1>1. CASE Len(s) <= Len(t)
  <2> DEFINE p == SubSeq(s, 1, Len(s))
             q == SubSeq(t, 1, Len(s))
  <2>1. /\ p \in Seq(S) /\ Len(p) = Len(s)
        /\ \A i \in 1 .. Len(s) : p[i] = s[i]
    OBVIOUS
  <2>2. /\ q \in Seq(S) /\ Len(q) = Len(s)
        /\ \A i \in 1 .. Len(s) : q[i] = t[i]
    BY <1>1
  <2> HIDE DEF p, q
  <2>3. p = q <=> \A i \in 1 .. Len(s) : p[i] = q[i]
    BY <2>1, <2>2, SeqEqual
  <2>4. p = q <=> \A i \in 1 .. Len(s) : s[i] = t[i]
    BY <2>1, <2>2, <2>3
  <2> QED BY <2>4, <1>1 DEF IsPrefix, p, q
<1>2. CASE ~ (Len(s) <= Len(t))
  BY <1>2 DEF IsPrefix
<1> QED BY <1>1, <1>2

LEMMA FrontProperties ==
  ASSUME NEW S, NEW s \in Seq(S), s # <<>>
  PROVE  /\ Len(s) \in Nat \ {0}
         /\ Front(s) \in Seq(S) /\ Len(Front(s)) = Len(s) - 1
         /\ Last(s) \in S /\ Last(s) = s[Len(s)]
         /\ \A j \in 1 .. Len(s) - 1 : Front(s)[j] = s[j]
<1>1. Len(s) \in Nat \ {0}
  OBVIOUS
<1>2. Last(s) \in S /\ Last(s) = s[Len(s)]
  BY <1>1 DEF Last
<1>3. Front(s) = SubSeq(s, 1, Len(s) - 1) /\ Len(s) - 1 <= Len(s) /\ Len(s) - 1 \in Nat
  BY <1>1 DEF Front
<1>4. \A j \in 1 .. Len(s) - 1 : s[j] \in S
  BY <1>1
<1>5. Front(s) \in Seq(S) /\ Len(Front(s)) = Len(s) - 1
      /\ \A j \in 1 .. Len(s) - 1 : Front(s)[j] = s[j]
  <2> DEFINE m == Len(s) - 1
  <2>1. m \in 0 .. Len(s) /\ \A i \in 1 .. m : s[i] \in S
    BY <1>1
  <2>2. SubSeq(s, 1, m) \in Seq(S) /\ Len(SubSeq(s, 1, m)) = m
        /\ \A j \in 1 .. m : SubSeq(s, 1, m)[j] = s[j]
    <3> HIDE DEF m
    <3> QED BY <2>1
  <2> QED BY <1>3, <2>2
<1> QED BY <1>1, <1>2, <1>5

LEMMA AppendFront ==
  ASSUME NEW S, NEW s \in Seq(S), NEW x \in S
  PROVE  /\ Append(s, x) \in Seq(S) /\ Append(s, x) # <<>>
         /\ Front(Append(s, x)) = s /\ Last(Append(s, x)) = x
<1> DEFINE u == Append(s, x)
<1>1. u \in Seq(S) /\ u # <<>> /\ Len(u) = Len(s) + 1 /\ u[Len(s) + 1] = x
      /\ \A i \in 1 .. Len(s) : u[i] = s[i]
  OBVIOUS
<1> HIDE DEF u
<1>2. Front(u) \in Seq(S) /\ Len(Front(u)) = Len(s) /\ Last(u) = x
      /\ \A j \in 1 .. Len(s) : Front(u)[j] = u[j]
  BY <1>1, FrontProperties
<1>3. Front(u) = s
  BY <1>1, <1>2
<1> QED BY <1>1, <1>2, <1>3 DEF u

LEMMA PrefixOfItself ==
  ASSUME NEW S, NEW s \in Seq(S)
  PROVE  IsPrefix(s, s)
BY PrefixByElements

LEMMA PrefixIsShorter ==
  ASSUME NEW S, NEW s \in Seq(S), NEW t \in Seq(S), IsPrefix(s, t)
  PROVE  Len(s) <= Len(t)
BY DEF IsPrefix

LEMMA PrefixLosesItsLast ==
  ASSUME NEW S, NEW s \in Seq(S), NEW t \in Seq(S), NEW x \in S,
         IsPrefix(Append(s, x), t)
  PROVE  IsStrictPrefix(s, t) /\ t[Len(s) + 1] = x
<1> DEFINE u == Append(s, x)
<1>1. u \in Seq(S) /\ Len(u) = Len(s) + 1 /\ u[Len(s) + 1] = x
      /\ \A i \in 1 .. Len(s) : u[i] = s[i]
  OBVIOUS
<1> HIDE DEF u
<1>2. Len(u) <= Len(t) /\ \A i \in 1 .. Len(u) : u[i] = t[i]
  BY <1>1, PrefixByElements DEF u
<1>3. Len(s) + 1 \in 1 .. Len(u) /\ Len(s) < Len(t)
  BY <1>1, <1>2
<1>4. t[Len(s) + 1] = x
  BY <1>1, <1>2, <1>3
<1>5. \A i \in 1 .. Len(s) : s[i] = t[i]
  BY <1>1, <1>2
<1>6. IsPrefix(s, t)
  BY <1>3, <1>5, PrefixByElements
<1> QED BY <1>3, <1>4, <1>6 DEF IsStrictPrefix

-----------------------------------------------------------------------------
(***************************************************************************)
(* What never changes about a cell once it is made, however the tree is    *)
(* turned around: the cell it was begun in, the continuation of its        *)
(* on-err, the extents and the handler of the code inside of it; and the   *)
(* cell where each continuation was captured.                              *)
(***************************************************************************)
Family(T) ==
  /\ \E n \in Cells : T.cells = 0 .. n
  /\ T.land \in Seq(T.cells)
  /\ T.par[Base] = Nil /\ T.path[Base] = <<>> /\ T.kont[Base] = Base /\ T.hand[Base] = Base
  /\ \A c \in T.cells : /\ T.path[c] \in Seq(T.cells)
                        /\ T.kont[c] \in 0 .. Len(T.land) /\ T.hand[c] \in 0 .. Len(T.land)
  /\ \A c \in T.cells \ {Base} :
        /\ T.par[c] \in T.cells /\ T.par[c] < c
        /\ T.path[c] = Append(T.path[T.par[c]], c)
        /\ T.hand[c] = IF T.kont[c] # Base THEN T.kont[c] ELSE T.hand[T.par[c]]
  /\ \A c, d \in T.cells : T.kont[c] = T.kont[d] /\ T.kont[c] # Base => c = d

Near(a, b, T) == T.par[a] = b \/ T.par[b] = a

(* A frame that is given a value when TCH is b is done with TCH at a.       *)
Leads(f, a, b, T) ==
  /\ f.fn \in {"body", "onerr"} => a = b
  /\ f.fn \in {"entering", "during"} =>
        f.cell = a /\ b # Base /\ T.par[b] = a /\ T.kont[b] = f.kont
  /\ f.fn = "leaving" => f.cell = a /\ b = a
  /\ f.fn = "reroot" => f.cell = a /\ Near(a, b, T)
  /\ f.fn = "throw" => f.kont \in 1 .. Len(T.land) /\ b = T.land[f.kont]
  /\ f.fn = "unhandled" => b = Base

(* The frames n + 1 .. i belong to one transfer, which ends where frame     *)
(* n + 1 moves to; each of its moves brings TCH nearer to there.            *)
Transferring(fr, n, i) ==
  /\ n = 0 \/ fr[n].fn # "reroot"
  /\ \A j \in n + 1 .. i : fr[j].fn = "reroot"
Nearer(a, b, t, T) ==
  /\ T.par[a] = b => IsPrefix(T.path[a], T.path[t])
  /\ T.par[b] = a => ~ IsPrefix(T.path[b], T.path[t])
Directed(fr, i, a, b, T) ==
  \A n \in 0 .. i - 1 : Transferring(fr, n, i) => Nearer(a, b, fr[n + 1].cell, T)

Joint(fr, i, a, b, T) == Leads(fr[i], a, b, T) /\ Directed(fr, i, a, b, T)

(* The frames, given a value when TCH is last, bring it back to TBCH.       *)
Chain(fr, last, T) ==
  \E h \in [0 .. Len(fr) -> T.cells] :
     /\ h[0] = Base /\ h[Len(fr)] = last
     /\ \A i \in 1 .. Len(fr) : Joint(fr, i, h[i - 1], h[i], T)

LEMMA LinkedAgrees ==
  ASSUME NEW fr, NEW gr, NEW i \in Nat \ {0}, NEW a, NEW b, NEW T,
         \A j \in 1 .. i : fr[j] = gr[j], Joint(fr, i, a, b, T)
  PROVE  Joint(gr, i, a, b, T)
<1>1. Leads(gr[i], a, b, T)
  <2>1. fr[i] = gr[i]
    OBVIOUS
  <2> QED BY <2>1 DEF Joint
<1>2. ASSUME NEW n \in 0 .. i - 1, Transferring(gr, n, i)
      PROVE  Nearer(a, b, gr[n + 1].cell, T)
  <2>1. fr[n + 1] = gr[n + 1] /\ (n # 0 => fr[n] = gr[n])
    BY <1>2
  <2>2. \A j \in n + 1 .. i : fr[j] = gr[j]
    BY <1>2
  <2>3. Transferring(fr, n, i)
    BY <1>2, <2>1, <2>2 DEF Transferring
  <2> QED BY <2>1, <2>3 DEF Joint, Directed
<1> QED BY <1>1, <1>2 DEF Joint, Directed

LEMMA ChainEmpty ==
  ASSUME NEW T, Base \in T.cells
  PROVE  Chain(<<>>, Base, T)
<1> DEFINE h == [i \in 0 .. 0 |-> Base]
<1>1. Len(<<>>) = 0
  OBVIOUS
<1>2. h \in [0 .. 0 -> T.cells] /\ h[0] = Base
  OBVIOUS
<1> HIDE DEF h
<1>3. \A i \in 1 .. 0 : Joint(<<>>, i, h[i - 1], h[i], T)
  OBVIOUS
<1> QED BY <1>1, <1>2, <1>3 DEF Chain

LEMMA ChainEnds ==
  ASSUME NEW T, NEW fr \in Seq(Frames), NEW a, Chain(fr, a, T)
  PROVE  a \in T.cells /\ (fr = <<>> => a = Base)
<1>1. Len(fr) \in 0 .. Len(fr)
  OBVIOUS
<1> QED BY <1>1 DEF Chain

LEMMA ChainPush ==
  ASSUME NEW T, NEW fr \in Seq(Frames), NEW f \in Frames, NEW a, NEW b \in T.cells,
         Chain(fr, a, T), Joint(Append(fr, f), Len(fr) + 1, a, b, T)
  PROVE  Chain(Append(fr, f), b, T)
<1> DEFINE gr == Append(fr, f)
           m == Len(fr)
<1>1. PICK h \in [0 .. m -> T.cells] :
         /\ h[0] = Base /\ h[m] = a
         /\ \A i \in 1 .. m : Joint(fr, i, h[i - 1], h[i], T)
  BY DEF Chain
<1> DEFINE g == [i \in 0 .. m + 1 |-> IF i = m + 1 THEN b ELSE h[i]]
<1>2. Len(gr) = m + 1 /\ m \in Nat /\ \A j \in 1 .. m : gr[j] = fr[j]
  OBVIOUS
<1> HIDE DEF gr, m
<1>3. g \in [0 .. Len(gr) -> T.cells] /\ g[0] = Base /\ g[Len(gr)] = b
  BY <1>1, <1>2
<1>4. ASSUME NEW i \in 1 .. Len(gr) PROVE Joint(gr, i, g[i - 1], g[i], T)
  <2>1. CASE i = m + 1
    <3>1. g[i - 1] = a /\ g[i] = b
      BY <1>1, <1>2, <2>1
    <3> QED BY <2>1, <3>1 DEF gr, m
  <2>2. CASE i # m + 1
    <3>1. i \in 1 .. m /\ g[i - 1] = h[i - 1] /\ g[i] = h[i]
      BY <1>2, <2>2
    <3>2. \A j \in 1 .. i : fr[j] = gr[j]
      BY <1>2, <3>1
    <3>3. Joint(fr, i, h[i - 1], h[i], T)
      BY <1>1, <3>1
    <3> QED BY <3>1, <3>2, <3>3, <1>2, LinkedAgrees
  <2> QED BY <2>1, <2>2
<1> HIDE DEF g
<1>5. Chain(gr, b, T)
  BY <1>3, <1>4 DEF Chain
<1> QED BY <1>5 DEF gr

LEMMA ChainPushPlain ==
  ASSUME NEW T, NEW fr \in Seq(Frames), NEW f \in Frames, NEW a, NEW b \in T.cells,
         Chain(fr, a, T), f.fn # "reroot", Leads(f, a, b, T)
  PROVE  Chain(Append(fr, f), b, T)
<1> DEFINE gr == Append(fr, f)
           m == Len(fr) + 1
<1>1. gr[m] = f /\ m \in Nat
  OBVIOUS
<1>2. ASSUME NEW n \in 0 .. m - 1 PROVE ~ Transferring(gr, n, m)
  <2>1. m \in n + 1 .. m
    BY <1>1, <1>2
  <2> HIDE DEF gr, m
  <2> QED BY <1>1, <2>1 DEF Transferring
<1>3. Joint(gr, m, a, b, T)
  <2> HIDE DEF gr, m
  <2> QED BY <1>1, <1>2 DEF Joint, Directed
<1> QED BY <1>3, ChainPush

LEMMA ChainPop ==
  ASSUME NEW T, NEW fr \in Seq(Frames), NEW b, Chain(fr, b, T), fr # <<>>
  PROVE  /\ Front(fr) \in Seq(Frames) /\ Last(fr) \in Frames
         /\ \E a \in T.cells : Chain(Front(fr), a, T) /\ Joint(fr, Len(fr), a, b, T)
<1> DEFINE gr == Front(fr)
           m == Len(fr)
<1>1. m \in Nat \ {0} /\ Len(gr) = m - 1 /\ gr \in Seq(Frames) /\ Last(fr) \in Frames
      /\ \A j \in 1 .. m - 1 : gr[j] = fr[j]
  BY FrontProperties
<1>2. PICK h \in [0 .. m -> T.cells] :
         /\ h[0] = Base /\ h[m] = b
         /\ \A i \in 1 .. m : Joint(fr, i, h[i - 1], h[i], T)
  BY DEF Chain
<1> DEFINE g == [i \in 0 .. m - 1 |-> h[i]]
<1> HIDE DEF gr, m
<1>3. g \in [0 .. Len(gr) -> T.cells] /\ g[0] = Base /\ g[Len(gr)] = h[m - 1]
  BY <1>1, <1>2
<1>4. ASSUME NEW i \in 1 .. Len(gr) PROVE Joint(gr, i, g[i - 1], g[i], T)
  <2>1. i \in 1 .. m /\ g[i - 1] = h[i - 1] /\ g[i] = h[i] /\ i \in Nat \ {0}
    BY <1>1
  <2>2. \A j \in 1 .. i : fr[j] = gr[j]
    BY <1>1
  <2>3. Joint(fr, i, h[i - 1], h[i], T)
    BY <1>2, <2>1
  <2> QED BY <2>1, <2>2, <2>3, LinkedAgrees
<1>5. Chain(gr, h[m - 1], T)
  <2> HIDE DEF g
  <2> QED BY <1>3, <1>4 DEF Chain
<1>6. Joint(fr, m, h[m - 1], b, T) /\ h[m - 1] \in T.cells
  BY <1>1, <1>2
<1> QED BY <1>1, <1>5, <1>6 DEF gr, m
-----------------------------------------------------------------------------
(***************************************************************************)
(* The tree grows by winds, the continuations by captures; what holds of   *)
(* the frames stays true.                                                  *)
(***************************************************************************)
Extends(T, U) ==
  /\ T.cells \subseteq U.cells
  /\ \A c \in T.cells : /\ U.par[c] = T.par[c] /\ U.kont[c] = T.kont[c]
                        /\ U.path[c] = T.path[c] /\ U.hand[c] = T.hand[c]
  /\ Len(T.land) \in Nat /\ Len(U.land) \in Nat /\ Len(T.land) <= Len(U.land)
  /\ \A k \in 1 .. Len(T.land) : U.land[k] = T.land[k]

WithCell(T, f, t, k) ==
  LET more(g, v) == [c \in T.cells \cup {f} |-> IF c = f THEN v ELSE g[c]]
  IN [cells |-> T.cells \cup {f}, land |-> T.land,
      par   |-> more(T.par, t),
      kont  |-> more(T.kont, k),
      path  |-> more(T.path, Append(T.path[t], f)),
      hand  |-> more(T.hand, IF k # Base THEN k ELSE T.hand[t])]

WithKont(T, t) ==
  [cells |-> T.cells, land |-> Append(T.land, t), par |-> T.par, kont |-> T.kont,
   path |-> T.path, hand |-> T.hand]

LEMMA ChainExtends ==
  ASSUME NEW T, NEW U, Extends(T, U), NEW fr \in Seq(Frames), NEW a, Chain(fr, a, T)
  PROVE  Chain(fr, a, U)
<1>1. PICK h \in [0 .. Len(fr) -> T.cells] :
         /\ h[0] = Base /\ h[Len(fr)] = a
         /\ \A i \in 1 .. Len(fr) : Joint(fr, i, h[i - 1], h[i], T)
  BY DEF Chain
<1>2. h \in [0 .. Len(fr) -> U.cells]
  BY DEF Extends
<1>3. ASSUME NEW i \in 1 .. Len(fr) PROVE Joint(fr, i, h[i - 1], h[i], U)
  <2>1. h[i - 1] \in T.cells /\ h[i] \in T.cells
    OBVIOUS
  <2>2. Leads(fr[i], h[i - 1], h[i], T)
    BY <1>1 DEF Joint
  <2>3. Near(h[i - 1], h[i], T) <=> Near(h[i - 1], h[i], U)
    BY <2>1 DEF Near, Extends
  <2>4. Leads(fr[i], h[i - 1], h[i], U)
    <3>1. fr[i].fn = "throw" => fr[i].kont \in 1 .. Len(U.land) /\ h[i] = U.land[fr[i].kont]
      BY <2>2 DEF Leads, Extends
    <3>2. fr[i].fn \in {"entering", "during"} =>
             /\ fr[i].cell = h[i - 1] /\ h[i] # Base
             /\ U.par[h[i]] = h[i - 1] /\ U.kont[h[i]] = fr[i].kont
      BY <2>1, <2>2 DEF Leads, Extends
    <3> QED BY <2>2, <2>3, <3>1, <3>2 DEF Leads
  <2>5. ASSUME NEW n \in 0 .. i - 1, Transferring(fr, n, i)
        PROVE  Nearer(h[i - 1], h[i], fr[n + 1].cell, U)
    <3>1. n + 1 \in 1 .. Len(fr) /\ n + 1 \in n + 1 .. i /\ (n + 1) - 1 = n /\ n \in 0 .. Len(fr)
      BY <2>5
    <3>2. fr[n + 1].fn = "reroot" /\ h[n] \in T.cells
      BY <2>5, <3>1 DEF Transferring
    <3>3. Leads(fr[n + 1], h[n], h[n + 1], T)
      BY <1>1, <3>1 DEF Joint
    <3>4. fr[n + 1].cell \in T.cells
      BY <3>2, <3>3 DEF Leads
    <3>5. Nearer(h[i - 1], h[i], fr[n + 1].cell, T)
      BY <1>1, <2>5 DEF Joint, Directed
    <3> QED BY <2>1, <3>4, <3>5 DEF Nearer, Extends
  <2> QED BY <2>4, <2>5 DEF Joint, Directed
<1> QED BY <1>1, <1>2, <1>3 DEF Chain

LEMMA KontIsNew ==
  ASSUME NEW T, Family(T), NEW t \in T.cells
  PROVE  Family(WithKont(T, t)) /\ Extends(T, WithKont(T, t))
<1> DEFINE U == WithKont(T, t)
<1>1. /\ U.cells = T.cells /\ U.par = T.par /\ U.kont = T.kont /\ U.path = T.path
      /\ U.hand = T.hand /\ U.land = Append(T.land, t)
  BY DEF WithKont
<1>2. /\ U.land \in Seq(T.cells) /\ Len(U.land) = Len(T.land) + 1 /\ Len(T.land) \in Nat
      /\ \A k \in 1 .. Len(T.land) : U.land[k] = T.land[k]
  BY <1>1 DEF Family
<1> HIDE DEF U
<1>3. \A c \in T.cells : U.kont[c] \in 0 .. Len(U.land) /\ U.hand[c] \in 0 .. Len(U.land)
  BY <1>1, <1>2 DEF Family
<1>4. Family(U)
  BY <1>1, <1>2, <1>3 DEF Family
<1>5. Extends(T, U)
  BY <1>1, <1>2 DEF Extends
<1> QED BY <1>4, <1>5 DEF U

LEMMA CellIsNew ==
  ASSUME NEW T, Family(T), NEW f \in Cells, T.cells = 0 .. f - 1, NEW t \in T.cells,
         NEW k \in 0 .. Len(T.land), \A c \in T.cells : k # Base => T.kont[c] # k
  PROVE  Family(WithCell(T, f, t, k)) /\ Extends(T, WithCell(T, f, t, k))
<1> DEFINE U == WithCell(T, f, t, k)
<1>0. f \in Nat /\ f \notin T.cells /\ Base \in T.cells /\ t < f /\ f # Base
  BY WindingAssumption DEF Cells, Base
<1>1. /\ U.cells = T.cells \cup {f} /\ U.land = T.land
      /\ U.par[f] = t /\ U.kont[f] = k /\ U.path[f] = Append(T.path[t], f)
      /\ U.hand[f] = IF k # Base THEN k ELSE T.hand[t]
  BY DEF WithCell
<1>2. \A c \in T.cells : /\ U.par[c] = T.par[c] /\ U.kont[c] = T.kont[c]
                         /\ U.path[c] = T.path[c] /\ U.hand[c] = T.hand[c]
  BY <1>0 DEF WithCell
<1> HIDE DEF U
<1>3. Extends(T, U)
  <2>1. Len(T.land) \in Nat
    BY DEF Family
  <2> QED BY <1>1, <1>2, <2>1 DEF Extends
<1>4. U.cells = 0 .. f
  BY <1>0, <1>1
<1>5. U.land \in Seq(U.cells)
  BY <1>1, SeqMonotonic DEF Family
<1>6. U.par[Base] = Nil /\ U.path[Base] = <<>> /\ U.kont[Base] = Base /\ U.hand[Base] = Base
  BY <1>0, <1>2 DEF Family
<1>7. \A c \in U.cells : /\ U.path[c] \in Seq(U.cells)
                         /\ U.kont[c] \in 0 .. Len(U.land) /\ U.hand[c] \in 0 .. Len(U.land)
  <2>1. \A c \in T.cells : T.path[c] \in Seq(U.cells)
    BY <1>1, SeqMonotonic DEF Family
  <2>2. U.path[f] \in Seq(U.cells)
    BY <1>1, <2>1
  <2>3. \A c \in T.cells : U.path[c] \in Seq(U.cells)
    BY <1>2, <2>1
  <2>4. \A c \in T.cells : U.kont[c] \in 0 .. Len(U.land) /\ U.hand[c] \in 0 .. Len(U.land)
    BY <1>1, <1>2 DEF Family
  <2>5. U.kont[f] \in 0 .. Len(U.land) /\ U.hand[f] \in 0 .. Len(U.land)
    BY <1>1 DEF Family
  <2> QED BY <1>1, <2>2, <2>3, <2>4, <2>5
<1>8. ASSUME NEW c \in U.cells \ {Base}
      PROVE  /\ U.par[c] \in U.cells /\ U.par[c] < c
             /\ U.path[c] = Append(U.path[U.par[c]], c)
             /\ U.hand[c] = IF U.kont[c] # Base THEN U.kont[c] ELSE U.hand[U.par[c]]
  <2>1. CASE c = f
    BY <1>0, <1>1, <1>2, <2>1
  <2>2. CASE c # f
    <3>1. c \in T.cells \ {Base}
      BY <1>1, <2>2
    <3>2. T.par[c] \in T.cells
      BY <3>1 DEF Family
    <3>3. U.par[c] = T.par[c] /\ U.path[U.par[c]] = T.path[T.par[c]]
          /\ U.hand[U.par[c]] = T.hand[T.par[c]] /\ U.path[c] = T.path[c]
          /\ U.kont[c] = T.kont[c] /\ U.hand[c] = T.hand[c]
      BY <1>2, <3>1, <3>2
    <3> QED BY <1>1, <3>1, <3>2, <3>3 DEF Family
  <2> QED BY <2>1, <2>2
<1>9. \A c, d \in U.cells : U.kont[c] = U.kont[d] /\ U.kont[c] # Base => c = d
  <2>1. \A c, d \in T.cells : T.kont[c] = T.kont[d] /\ T.kont[c] # Base => c = d
    BY DEF Family
  <2> QED BY <1>1, <1>2, <2>1
<1>10. Family(U)
  BY <1>4, <1>5, <1>6, <1>7, <1>8, <1>9 DEF Family
<1> QED BY <1>3, <1>10 DEF U
-----------------------------------------------------------------------------
(***************************************************************************)
(* The inductive invariant.                                                *)
(***************************************************************************)
Fits(T) ==
  /\ T.cells = Used
  /\ Len(T.land) = Len(konts)
  /\ \A k \in 1 .. Len(konts) : T.land[k] = konts[k].tch

(* An edge of the tree has its thunks at the end that is farther from TCH,  *)
(* turned around when that is the outer cell.                               *)
Upright(c, T) ==
  cdr[c] = T.par[c] /\ cdr[T.par[c]] # c /\ car[c] = Pair(c, T.kont[c])
Upturned(c, T) ==
  /\ cdr[T.par[c]] = c /\ cdr[c] # T.par[c]
  /\ car[T.par[c]] = [into |-> Pair(c, T.kont[c]).out, out |-> Pair(c, T.kont[c]).into]
Links(T) ==
  /\ cdr[tch] = Nil
  /\ \A c \in Used \ {tch} : cdr[c] \in Used /\ Near(c, cdr[c], T)
  /\ \A c \in Used \ {Base} : Upright(c, T) \/ Upturned(c, T)

(* TEXH is the handler of the code at TCH, but for the moment between a     *)
(* move and the thunk that it calls; an on-err that TCH is inside of has    *)
(* kept the handler outside of it.                                          *)
Pending == ctl.op = "run" /\ ctl.thunk.kont # Base
Saving(c) == Pending /\ ctl.thunk.side = "before" /\ ctl.thunk.wind = c
Called(c, T) ==
  /\ c \in Used \ {Base} /\ T.kont[c] = ctl.thunk.kont
  /\ \/ ctl.thunk.side = "before" /\ tch = c /\ exh = T.hand[T.par[c]]
     \/ /\ ctl.thunk.side = "after" /\ tch = T.par[c] /\ exh = T.hand[c]
        /\ old[T.kont[c]] = T.hand[T.par[c]]
Handlers(T) ==
  /\ Pending => Called(ctl.thunk.wind, T)
  /\ ~ Pending => exh = T.hand[tch]
  /\ \A c \in Used \ {Base} :
        T.kont[c] # Base /\ cdr[T.par[c]] = c /\ ~ Saving(c) => old[T.kont[c]] = T.hand[T.par[c]]

Kept(T) == \A k \in 1 .. Len(konts) : Chain(konts[k].frames, konts[k].tch, T)

(* A transfer never turns back: its next move is not to where the last one  *)
(* will start.                                                              *)
Onward == conr # <<>> /\ Top.fn = "reroot" => cdr[Top.cell] = ctl.to
Running(T) ==
  /\ ctl.op # "reroot" => Chain(conr, tch, T)
  /\ ctl.op = "reroot" => Chain(conr, ctl.to, T) /\ Onward
  /\ ctl.op = "broken" => tch = Base /\ exh = Base

Holds(T) == Family(T) /\ Fits(T) /\ Links(T) /\ Handlers(T) /\ Kept(T) /\ Running(T)

IInv == TypeOK /\ \E T : Holds(T)

LEMMA CellNumbers ==
  ASSUME NEW T, Family(T)
  PROVE  /\ T.cells \subseteq Nat /\ T.cells \subseteq Cells /\ Base \in T.cells /\ Nil \notin T.cells
         /\ Nil \in Nat
         /\ \A a, b \in T.cells : Near(a, b, T) => a # b
<1>1. PICK n \in Cells : T.cells = 0 .. n
  BY DEF Family
<1>2. n \in Nat /\ n <= MaxCells /\ MaxCells \in Nat
  BY WindingAssumption DEF Cells
<1>3. T.cells \subseteq Nat /\ T.cells \subseteq Cells /\ Base \in T.cells /\ Nil \notin T.cells /\ Nil \in Nat
  BY <1>1, <1>2 DEF Cells, Base, Nil
<1>4. ASSUME NEW a \in T.cells, NEW b \in T.cells, T.par[a] = b PROVE a # b
  <2>1. a # Base
    BY <1>3, <1>4 DEF Family
  <2>2. T.par[a] < a
    BY <2>1 DEF Family
  <2> QED BY <1>3, <1>4, <2>2
<1> QED BY <1>3, <1>4 DEF Near

LEMMA InitHolds == Init => IInv
<1> SUFFICES ASSUME Init PROVE IInv
  OBVIOUS
<1> DEFINE T == [cells |-> {Base}, land |-> <<>>, par |-> [c \in {Base} |-> Nil],
                 path |-> [c \in {Base} |-> <<>>], kont |-> [c \in {Base} |-> Base],
                 hand |-> [c \in {Base} |-> Base]]
<1>0. MaxCells \in Nat /\ MaxKonts \in Nat /\ Fuel \in Nat /\ Base = 0 /\ Base \in Cells /\ Nil \notin Cells
  BY WindingAssumption DEF Cells, Base, Nil
<1>1. Used = {Base} /\ car \in [{Base} -> {[into |-> Dead, out |-> Dead]}]
      /\ cdr \in [{Base} -> {Nil}] /\ car[Base] = [into |-> Dead, out |-> Dead] /\ cdr[Base] = Nil
  BY DEF Init, Used
<1>2. Dead \in Thunks /\ Dead.kont = Base
  BY <1>0 DEF Dead, Thunks
<1>3. TypeOK
  <2>1. car \in [Used -> [into : Thunks, out : Thunks]] /\ cdr \in [Used -> Cells \cup {Nil}]
    BY <1>1, <1>2
  <2>2. ctl \in [op : Ops, thunk : Thunks, to : Cells, val : Values]
    BY <1>0, <1>2 DEF Init, Run, Ops, Values
  <2>3. konts = <<>> /\ conr = <<>> /\ Len(konts) = 0
    BY DEF Init
  <2>4. konts \in Seq([frames : Seq(Frames), tch : Cells]) /\ conr \in Seq(Frames)
    BY <2>3
  <2> QED BY <1>0, <1>1, <1>2, <2>1, <2>2, <2>3, <2>4 DEF Init, TypeOK
<1>4. Family(T)
  <2>1. {Base} = 0 .. 0 /\ 0 \in Cells
    BY <1>0
  <2>2. <<>> \in Seq({Base}) /\ Len(<<>>) = 0
    OBVIOUS
  <2> QED BY <1>0, <2>1, <2>2 DEF Family
<1>5. Fits(T)
  BY <1>1 DEF Init, Fits
<1>6. Links(T)
  BY <1>1 DEF Init, Links
<1>7. Handlers(T)
  BY <1>1, <1>2 DEF Init, Handlers, Pending, Run
<1>8. Kept(T)
  BY DEF Init, Kept
<1>9. Running(T)
  <2>1. Chain(<<>>, Base, T)
    BY ChainEmpty
  <2> HIDE DEF T
  <2> QED BY <2>1 DEF Init, Running, Run
<1> HIDE DEF T
<1> QED BY <1>3, <1>4, <1>5, <1>6, <1>7, <1>8, <1>9 DEF IInv, Holds
-----------------------------------------------------------------------------
(***************************************************************************)
(* Steps that leave the tree, the continuations and the handlers alone.    *)
(***************************************************************************)
Still == UNCHANGED <<car, cdr, tch, konts, exh, old, thunk>>
CtlType == [op : Ops, thunk : Thunks, to : Cells, val : Values]

LEMMA StillHolds ==
  ASSUME NEW T, TypeOK, Holds(T), Still, ~ Pending, ~ Pending', Running(T)',
         conr' \in Seq(Frames), ctl' \in CtlType, fuel' \in 0 .. Fuel
  PROVE  TypeOK' /\ Holds(T)'
<1>1. TypeOK'
  BY DEF TypeOK, Still, Used, CtlType
<1>2. Family(T)' /\ Fits(T)'
  BY DEF Holds, Family, Fits, Still, Used
<1>3. Links(T)'
  BY DEF Holds, Links, Upright, Upturned, Near, Still, Used
<1>4. Handlers(T)'
  BY DEF Holds, Handlers, Saving, Still, Used
<1>5. Kept(T)'
  BY DEF Holds, Kept, Still
<1> QED BY <1>1, <1>2, <1>3, <1>4, <1>5 DEF Holds

LEMMA Constructors ==
  /\ Dead \in Thunks /\ Base \in Cells /\ Base \in 0 .. MaxKonts
  /\ \A f \in Waiting, w \in Cells, k \in 0 .. MaxKonts, v \in Values : Frame(f, w, k, v) \in Frames
  /\ Body \in Frames /\ Body.fn = "body"
  /\ \A v \in Values : Return(v) \in CtlType
  /\ \A t \in Thunks : Run(t) \in CtlType
  /\ \A w \in Cells : Reroot(w) \in CtlType
  /\ Stop("broken") \in CtlType /\ Stop("released") \in CtlType
<1>0. Base \in Cells /\ Base \in 0 .. MaxKonts
  BY WindingAssumption DEF Base, Cells
<1>1. Dead \in Thunks
  BY <1>0 DEF Dead, Thunks
<1>2. \A f \in Waiting, w \in Cells, k \in 0 .. MaxKonts, v \in Values : Frame(f, w, k, v) \in Frames
  BY DEF Frame, Frames
<1>3. Body \in Frames /\ Body.fn = "body"
  BY <1>0 DEF Body, Frame, Frames, Waiting, Values
<1>4. \A v \in Values : Return(v) \in CtlType
  BY <1>0, <1>1 DEF Return, CtlType, Ops
<1>5. \A t \in Thunks : Run(t) \in CtlType
  BY <1>0 DEF Run, CtlType, Ops, Values
<1>6. \A w \in Cells : Reroot(w) \in CtlType
  BY <1>1 DEF Reroot, CtlType, Ops, Values
<1>7. Stop("broken") \in CtlType /\ Stop("released") \in CtlType
  BY <1>0, <1>1 DEF Stop, CtlType, Ops, Values
<1> QED BY <1>0, <1>1, <1>2, <1>3, <1>4, <1>5, <1>6, <1>7

LEMMA ActFacts ==
  ASSUME NEW T, TypeOK, Holds(T), Act
  PROVE  ctl.op = "run" /\ ~ Pending /\ Chain(conr, tch, T) /\ fuel' \in 0 .. Fuel
<1>1. fuel \in 0 .. Fuel /\ Fuel \in Nat
  BY WindingAssumption DEF TypeOK
<1>2. fuel' \in 0 .. Fuel
  BY <1>1 DEF Act
<1>3. ctl.op = "run" /\ ~ Pending
  BY DEF Act, Pending
<1> QED BY <1>2, <1>3 DEF Holds, Running

LEMMA KontFacts ==
  ASSUME NEW T, TypeOK, Holds(T)
  PROVE  /\ Len(konts) \in Nat /\ Len(konts) <= MaxKonts /\ MaxKonts \in Nat
         /\ DOMAIN konts = 1 .. Len(konts) /\ Len(T.land) = Len(konts)
         /\ \A k \in DOMAIN konts :
               /\ k \in 0 .. MaxKonts /\ konts[k].tch \in Cells /\ konts[k].tch = T.land[k]
               /\ T.land[k] \in T.cells
               /\ konts[k].frames \in Seq(Frames) /\ Chain(konts[k].frames, konts[k].tch, T)
<1>1. Len(konts) \in Nat /\ DOMAIN konts = 1 .. Len(konts) /\ Len(konts) <= MaxKonts
      /\ MaxKonts \in Nat
  BY WindingAssumption DEF TypeOK
<1>2. Len(T.land) = Len(konts) /\ \A k \in 1 .. Len(konts) : konts[k].tch = T.land[k]
  BY DEF Holds, Fits
<1>3. T.land \in Seq(T.cells)
  BY DEF Holds, Family
<1>4. \A k \in 1 .. Len(konts) : T.land[k] \in T.cells
  BY <1>2, <1>3, ElementOfSeq
<1>5. \A k \in 1 .. Len(konts) : konts[k] \in [frames : Seq(Frames), tch : Cells]
  BY ElementOfSeq DEF TypeOK
<1>6. \A k \in 1 .. Len(konts) : Chain(konts[k].frames, konts[k].tch, T)
  BY DEF Holds, Kept
<1> QED BY <1>1, <1>2, <1>4, <1>5, <1>6

(* A call leaves the rest of its caller waiting.                            *)
LEMMA CallerWaits ==
  ASSUME NEW T, TypeOK, Holds(T), Chain(conr, tch, T)
  PROVE  Append(conr, Body) \in Seq(Frames) /\ Chain(Append(conr, Body), tch, T)
<1>1. tch \in T.cells
  BY DEF TypeOK, Holds, Fits
<1>2. Leads(Body, tch, tch, T)
  BY DEF Leads, Body, Frame
<1> QED BY <1>1, <1>2, Constructors, ChainPushPlain DEF TypeOK

LEMMA BodyAnd ==
  ASSUME NEW T, TypeOK, Holds(T), Chain(conr, tch, T), NEW f \in Frames, NEW b \in T.cells,
         f.fn # "reroot", Leads(f, tch, b, T)
  PROVE  /\ conr \o <<Body, f>> \in Seq(Frames) /\ conr \o <<Body, f>> # <<>>
         /\ Last(conr \o <<Body, f>>) = f /\ Chain(conr \o <<Body, f>>, b, T)
<1> DEFINE c1 == Append(conr, Body)
           c2 == Append(c1, f)
<1>1. c1 \in Seq(Frames) /\ Chain(c1, tch, T)
  BY CallerWaits
<1>2. c2 \in Seq(Frames) /\ c2 # <<>> /\ Last(c2) = f
  <2> HIDE DEF c1
  <2> QED BY <1>1 DEF Last
<1>3. Chain(c2, b, T)
  <2> HIDE DEF c1
  <2> QED BY <1>1, ChainPushPlain
<1>4. conr \o <<Body, f>> = c2
  BY Constructors DEF TypeOK
<1> QED BY <1>2, <1>3, <1>4

LEMMA ThrowToStep ==
  ASSUME NEW T, TypeOK, Holds(T), Act, NEW k \in DOMAIN konts, NEW v \in Values, ThrowTo(k, v), Still
  PROVE  TypeOK' /\ Holds(T)'
<1> DEFINE f == Frame("throw", Base, k, v)
<1>1. ~ Pending /\ Chain(conr, tch, T) /\ fuel' \in 0 .. Fuel
  BY ActFacts
<1>2. /\ k \in 1 .. Len(T.land) /\ k \in 0 .. MaxKonts
      /\ konts[k].tch \in Cells /\ konts[k].tch = T.land[k] /\ T.land[k] \in T.cells
  BY KontFacts
<1>3. f \in Frames /\ f.fn = "throw" /\ f.kont = k
  BY <1>2, Constructors DEF Frame, Waiting
<1> HIDE DEF f
<1>5. Leads(f, tch, konts[k].tch, T)
  BY <1>2, <1>3 DEF Leads
<1>6. /\ conr' \in Seq(Frames) /\ conr' # <<>> /\ Last(conr') = f /\ Chain(conr', konts[k].tch, T)
  BY <1>1, <1>2, <1>3, <1>5, BodyAnd DEF ThrowTo, f
<1>7. ctl' = Reroot(konts[k].tch) /\ ctl' \in CtlType
  BY <1>2, Constructors DEF ThrowTo
<1>8. Running(T)' /\ ~ Pending'
  BY <1>3, <1>6, <1>7 DEF Running, Reroot, Onward, Top, Pending
<1> QED BY <1>1, <1>6, <1>7, <1>8, StillHolds

LEMMA GiveUpStep ==
  ASSUME NEW T, TypeOK, Holds(T), Act, GiveUp, Still
  PROVE  TypeOK' /\ Holds(T)'
<1> DEFINE f == Frame("unhandled", Base, Base, "val")
<1>1. ~ Pending /\ Chain(conr, tch, T) /\ fuel' \in 0 .. Fuel
  BY ActFacts
<1>3. f \in Frames /\ f.fn = "unhandled"
  BY Constructors DEF Frame, Waiting, Values
<1> HIDE DEF f
<1>2. Base \in T.cells
  BY CellNumbers DEF Holds
<1>4. Leads(f, tch, Base, T)
  BY <1>3 DEF Leads
<1>5. /\ conr' \in Seq(Frames) /\ conr' # <<>> /\ Last(conr') = f /\ Chain(conr', Base, T)
  BY <1>1, <1>2, <1>3, <1>4, BodyAnd DEF GiveUp, f
<1>6. ctl' = Reroot(Base) /\ ctl' \in CtlType
  BY Constructors DEF GiveUp
<1>7. Running(T)' /\ ~ Pending'
  BY <1>3, <1>5, <1>6 DEF Running, Reroot, Onward, Top, Pending
<1> QED BY <1>1, <1>5, <1>6, <1>7, StillHolds

LEMMA ActingHolds ==
  ASSUME NEW T, TypeOK, Holds(T), Throw \/ Raise
  PROVE  TypeOK' /\ Holds(T)'
<1>1. Still
  BY DEF Throw, Raise, tree, Still
<1>2. CASE Throw
  <2>1. PICK k \in DOMAIN konts : ThrowTo(k, "val")
    BY <1>2 DEF Throw
  <2>2. Act /\ "val" \in Values
    BY <1>2 DEF Throw, Values
  <2> QED BY <1>1, <2>1, <2>2, ThrowToStep
<1>3. CASE Raise /\ exh = Base
  BY <1>1, <1>3, GiveUpStep DEF Raise
<1>4. CASE Raise /\ exh # Base
  <2>1. exh \in DOMAIN konts
    BY <1>4, KontFacts DEF TypeOK, Base
  <2>2. Act /\ ThrowTo(exh, "raised") /\ "raised" \in Values
    BY <1>4 DEF Raise, Values
  <2> QED BY <1>1, <2>1, <2>2, ThrowToStep
<1> QED BY <1>2, <1>3, <1>4

LEMMA FinishHolds ==
  ASSUME NEW T, TypeOK, Holds(T), Finish
  PROVE  TypeOK' /\ Holds(T)'
<1>1. Still /\ conr' = conr /\ fuel' = fuel
  BY DEF Finish, tree, errs, Still
<1>2. PICK v \in Values : ctl' = Return(v)
  BY DEF Finish, Values
<1>3. ~ Pending /\ ~ Pending' /\ ctl'.op = "return" /\ ctl' \in CtlType
  BY <1>2, Constructors DEF Finish, Pending, Return
<1>4. Running(T)'
  BY <1>1, <1>3 DEF Finish, Holds, Running, Still
<1> QED BY <1>1, <1>3, <1>4, StillHolds DEF TypeOK

LEMMA RerootDoneHolds ==
  ASSUME NEW T, TypeOK, Holds(T), RerootDone
  PROVE  TypeOK' /\ Holds(T)'
<1>1. Still /\ conr' = conr /\ fuel' = fuel
  BY DEF RerootDone, tree, errs, Still
<1>2. ctl' = Return("val") /\ "val" \in Values
  BY DEF RerootDone, Values
<1>3. ~ Pending /\ ~ Pending' /\ ctl'.op = "return" /\ ctl' \in CtlType
  BY <1>2, Constructors DEF RerootDone, Pending, Return
<1>4. Running(T)'
  BY <1>1, <1>3 DEF RerootDone, Holds, Running, Still
<1> QED BY <1>1, <1>3, <1>4, StillHolds DEF TypeOK

(* What a frame finds when a value comes back to it.                        *)
LEMMA Resumed ==
  ASSUME NEW T, TypeOK, Holds(T), NEW g, Resume(g)
  PROVE  /\ conr # <<>> /\ ctl.op = "return" /\ ~ Pending /\ Top \in Frames /\ Top.fn = g
         /\ Front(conr) \in Seq(Frames) /\ Len(conr) \in Nat \ {0}
         /\ \E a \in T.cells : /\ Chain(Front(conr), a, T) /\ Leads(Top, a, tch, T)
                               /\ Directed(conr, Len(conr), a, tch, T)
<1>1. conr # <<>> /\ ctl.op = "return" /\ ~ Pending /\ Top.fn = g
  BY DEF Resume, Pending
<1>2. Chain(conr, tch, T) /\ conr \in Seq(Frames)
  BY <1>1 DEF Holds, Running, TypeOK
<1>3. Top \in Frames /\ Front(conr) \in Seq(Frames) /\ Top = conr[Len(conr)]
      /\ Len(conr) \in Nat \ {0}
  BY <1>1, <1>2, FrontProperties DEF Top
<1>4. PICK a \in T.cells : Chain(Front(conr), a, T) /\ Joint(conr, Len(conr), a, tch, T)
  BY <1>1, <1>2, ChainPop
<1> QED BY <1>1, <1>3, <1>4 DEF Joint

LEMMA EnteredHolds ==
  ASSUME NEW T, TypeOK, Holds(T), Entered
  PROVE  TypeOK' /\ Holds(T)'
<1> DEFINE f == Frame("during", Top.cell, Top.kont, "val")
<1>1. Still /\ fuel' = fuel
  BY DEF Entered, tree, errs, Still
<1>2. /\ ~ Pending /\ Top \in Frames /\ Top.fn = "entering" /\ Front(conr) \in Seq(Frames)
      /\ \E a \in T.cells : Chain(Front(conr), a, T) /\ Leads(Top, a, tch, T)
  BY Resumed DEF Entered
<1>3. PICK a \in T.cells : Chain(Front(conr), a, T) /\ Leads(Top, a, tch, T)
  BY <1>2
<1>4. f \in Frames /\ f.fn = "during" /\ f.cell = Top.cell /\ f.kont = Top.kont
  BY <1>2, Constructors DEF Frames, Frame, Waiting, Values
<1> HIDE DEF f
<1>5. Leads(f, a, tch, T) /\ tch \in T.cells
  BY <1>2, <1>3, <1>4 DEF Leads, Holds, Fits, TypeOK
<1>6. conr' \in Seq(Frames) /\ Chain(conr', tch, T)
  BY <1>2, <1>3, <1>4, <1>5, ChainPushPlain DEF Entered, f
<1>7. ctl' = Run(Dead) /\ ctl' \in CtlType /\ ~ Pending'
  BY Constructors DEF Entered, Pending, Run, Dead
<1>8. Running(T)'
  BY <1>1, <1>6, <1>7 DEF Running, Run, Still
<1> QED BY <1>1, <1>2, <1>6, <1>7, <1>8, StillHolds DEF TypeOK

LEMMA DuringDoneHolds ==
  ASSUME NEW T, TypeOK, Holds(T), DuringDone
  PROVE  TypeOK' /\ Holds(T)'
<1> DEFINE f == Frame("leaving", Top.cell, Top.kont, ctl.val)
<1>1. Still /\ fuel' = fuel
  BY DEF DuringDone, tree, errs, Still
<1>2. /\ ~ Pending /\ Top \in Frames /\ Top.fn = "during" /\ Front(conr) \in Seq(Frames)
      /\ \E a \in T.cells : Chain(Front(conr), a, T) /\ Leads(Top, a, tch, T)
  BY Resumed DEF DuringDone
<1>3. PICK a \in T.cells : Chain(Front(conr), a, T) /\ Leads(Top, a, tch, T)
  BY <1>2
<1>4. f \in Frames /\ f.fn = "leaving" /\ f.cell = Top.cell
  BY <1>2, Constructors DEF Frames, Frame, Waiting, TypeOK
<1> HIDE DEF f
<1>5. Leads(f, a, a, T) /\ Top.cell = a /\ a \in Cells
  BY <1>2, <1>3, <1>4, CellNumbers DEF Leads, Holds
<1>6. conr' = Append(Front(conr), f)
  BY DEF DuringDone, f
<1>7. conr' \in Seq(Frames) /\ Chain(conr', a, T)
  BY <1>2, <1>3, <1>4, <1>5, <1>6, ChainPushPlain
<1>8. conr' # <<>> /\ Last(conr') = f
  BY <1>2, <1>4, <1>6 DEF Last
<1>9. ctl' = Reroot(a) /\ ctl' \in CtlType /\ ~ Pending'
  BY <1>5, Constructors DEF DuringDone, Pending, Reroot
<1>10. Running(T)'
  BY <1>4, <1>7, <1>8, <1>9 DEF Running, Reroot, Onward, Top
<1> QED BY <1>1, <1>2, <1>7, <1>9, <1>10, StillHolds DEF TypeOK

LEMMA LeftHolds ==
  ASSUME NEW T, TypeOK, Holds(T), Left
  PROVE  TypeOK' /\ Holds(T)'
<1>1. Still /\ fuel' = fuel /\ conr' = Front(conr)
  BY DEF Left, tree, errs, Still
<1>2. /\ ~ Pending /\ Top \in Frames /\ Top.fn = "leaving" /\ Front(conr) \in Seq(Frames)
      /\ \E a \in T.cells : Chain(Front(conr), a, T) /\ Leads(Top, a, tch, T)
  BY Resumed DEF Left
<1>3. Chain(conr', tch, T) /\ conr' \in Seq(Frames)
  BY <1>1, <1>2 DEF Leads
<1>4. ctl' = Return(Top.val) /\ ctl' \in CtlType /\ ~ Pending'
  BY <1>2, Constructors DEF Left, Pending, Return, Frames
<1>5. Running(T)'
  BY <1>1, <1>3, <1>4 DEF Running, Return, Still
<1> QED BY <1>1, <1>2, <1>3, <1>4, <1>5, StillHolds DEF TypeOK

(* A continuation always has the frame of its caller: the exception is the  *)
(* ccc that is the last thing a whole program does.                         *)
KontsReturn == \A k \in DOMAIN konts : konts[k].frames # <<>>

LEMMA LandedHolds ==
  ASSUME NEW T, TypeOK, Holds(T), KontsReturn, Landed
  PROVE  TypeOK' /\ Holds(T)'
<1>1. Still /\ fuel' = fuel
  BY DEF Landed, tree, errs, Still
<1>2. /\ ~ Pending /\ Top \in Frames /\ Top.fn = "throw"
      /\ \E a \in T.cells : Chain(Front(conr), a, T) /\ Leads(Top, a, tch, T)
  BY Resumed DEF Landed
<1>3. Top.kont \in 1 .. Len(T.land) /\ tch = T.land[Top.kont]
  BY <1>2 DEF Leads
<1>4. Top.kont \in DOMAIN konts /\ konts[Top.kont].tch = tch
  BY <1>3, KontFacts
<1>5. conr' = konts[Top.kont].frames
  BY <1>4 DEF Landed, Landing, KontsReturn
<1>6. Chain(conr', tch, T) /\ conr' \in Seq(Frames)
  BY <1>4, <1>5, KontFacts
<1>7. ctl' = Return(Top.val) /\ ctl' \in CtlType /\ ~ Pending'
  BY <1>2, Constructors DEF Landed, Pending, Return, Frames
<1>8. Running(T)'
  BY <1>1, <1>6, <1>7 DEF Running, Return, Still
<1> QED BY <1>1, <1>2, <1>6, <1>7, <1>8, StillHolds DEF TypeOK

LEMMA GoesOnHolds ==
  ASSUME NEW T, TypeOK, Holds(T), OnErrDone \/ BodyGoesOn
  PROVE  TypeOK' /\ Holds(T)'
<1>1. Still /\ fuel' = fuel /\ conr' = Front(conr)
  BY DEF OnErrDone, BodyGoesOn, tree, errs, Still
<1>2. /\ ~ Pending /\ Top \in Frames /\ Top.fn \in {"onerr", "body"} /\ Front(conr) \in Seq(Frames)
      /\ \E a \in T.cells : Chain(Front(conr), a, T) /\ Leads(Top, a, tch, T)
  BY Resumed DEF OnErrDone, BodyGoesOn
<1>3. Chain(conr', tch, T) /\ conr' \in Seq(Frames)
  BY <1>1, <1>2 DEF Leads
<1>4. ctl' = Run(Dead) \/ ctl' = Return(ctl.val)
  BY DEF OnErrDone, BodyGoesOn
<1>5. ctl' \in CtlType /\ ~ Pending' /\ ctl'.op \in {"run", "return"}
  BY <1>4, Constructors DEF Pending, Return, Run, Dead, TypeOK
<1>6. Running(T)'
  BY <1>1, <1>3, <1>5 DEF Running, Still
<1> QED BY <1>1, <1>2, <1>3, <1>5, <1>6, StillHolds DEF TypeOK

LEMMA StoppedHolds ==
  ASSUME NEW T, TypeOK, Holds(T), Unhandled \/ Released
  PROVE  TypeOK' /\ Holds(T)'
<1>1. Still /\ fuel' = fuel /\ conr' = conr /\ ~ Pending
  BY DEF Unhandled, Released, Resume, Pending, tree, errs, Still
<1>0. Chain(conr', tch', T)
  BY <1>1 DEF Unhandled, Released, Resume, Holds, Running, Still
<1>2. CASE Unhandled
  <2>1. \E a \in T.cells : Leads(Top, a, tch, T) /\ Top.fn = "unhandled"
    BY <1>2, Resumed DEF Unhandled
  <2>2. tch = Base
    BY <2>1 DEF Leads
  <2>3. exh = Base
    BY <1>1, <2>2 DEF Holds, Handlers, Family
  <2>4. ctl' = Stop("broken") /\ ctl' \in CtlType /\ ~ Pending' /\ ctl'.op = "broken"
    BY <1>2, Constructors DEF Unhandled, Pending, Stop
  <2>5. Running(T)'
    BY <1>0, <1>1, <2>2, <2>3, <2>4 DEF Running, Still
  <2> QED BY <1>1, <2>4, <2>5, StillHolds DEF TypeOK
<1>3. CASE Released
  <2>1. ctl' = Stop("released") /\ ctl' \in CtlType /\ ~ Pending' /\ ctl'.op = "released"
    BY <1>3, Constructors DEF Released, Pending, Stop
  <2>2. Running(T)'
    BY <1>0, <2>1 DEF Running
  <2> QED BY <1>1, <2>1, <2>2, StillHolds DEF TypeOK
<1> QED BY <1>2, <1>3
-----------------------------------------------------------------------------
(***************************************************************************)
(* __arc_reroot.                                                           *)
(***************************************************************************)

(* The way to TCH never goes back over the edge it came by.                 *)
LEMMA NoWayBack ==
  ASSUME NEW T, Family(T), Fits(T), Links(T), NEW a \in Used, NEW b \in Used,
         Near(a, b, T), cdr[a] = b
  PROVE  cdr[b] # a
<1>1. CASE T.par[a] = b
  <2>1. a \in Used \ {Base}
    BY <1>1, CellNumbers DEF Family, Fits
  <2> QED BY <1>1, <2>1 DEF Links, Upright, Upturned
<1>2. CASE T.par[b] = a
  <2>1. b \in Used \ {Base}
    BY <1>2, CellNumbers DEF Family, Fits
  <2> QED BY <1>2, <2>1 DEF Links, Upright, Upturned
<1> QED BY <1>1, <1>2 DEF Near

LEMMA PathOf ==
  ASSUME NEW T, Family(T), NEW a \in T.cells, NEW b \in T.cells, T.par[b] = a
  PROVE  /\ T.path[b] = Append(T.path[a], b) /\ T.path[a] \in Seq(T.cells)
         /\ T.path[b] \in Seq(T.cells)
         /\ Len(T.path[b]) = Len(T.path[a]) + 1 /\ Len(T.path[a]) \in Nat
<1>1. b \in T.cells \ {Base}
  BY CellNumbers DEF Family
<1>2. T.path[b] = Append(T.path[a], b) /\ T.path[a] \in Seq(T.cells) /\ T.path[b] \in Seq(T.cells)
  BY <1>1 DEF Family
<1> QED BY <1>2

LEMMA FirstMove ==
  ASSUME NEW T, Family(T), NEW a \in T.cells, NEW b \in T.cells
  PROVE  Nearer(a, b, a, T)
<1>1. T.path[a] \in Seq(T.cells)
  BY DEF Family
<1>2. IsPrefix(T.path[a], T.path[a])
  BY <1>1, PrefixOfItself
<1>3. ASSUME T.par[b] = a PROVE ~ IsPrefix(T.path[b], T.path[a])
  BY <1>3, PathOf, PrefixIsShorter
<1> QED BY <1>2, <1>3 DEF Nearer

LEMMA NextMove ==
  ASSUME NEW T, Family(T), NEW p \in T.cells, NEW a \in T.cells, NEW b \in T.cells,
         NEW t \in T.cells, Near(p, a, T), Near(a, b, T), b # p, Nearer(p, a, t, T)
  PROVE  Nearer(a, b, t, T)
<1>0. T.path[t] \in Seq(T.cells)
  BY DEF Family
<1>1. CASE T.par[p] = a
  <2>1. T.path[p] = Append(T.path[a], p) /\ T.path[a] \in Seq(T.cells)
    BY <1>1, PathOf
  <2>2. IsStrictPrefix(T.path[a], T.path[t]) /\ T.path[t][Len(T.path[a]) + 1] = p
    BY <1>0, <1>1, <2>1, PrefixLosesItsLast DEF Nearer
  <2>3. ASSUME T.par[b] = a PROVE ~ IsPrefix(T.path[b], T.path[t])
    <3>1. T.path[b] = Append(T.path[a], b)
      BY <2>3, PathOf
    <3> QED BY <1>0, <2>1, <2>2, <3>1, PrefixLosesItsLast
  <2> QED BY <2>2, <2>3 DEF Nearer, IsStrictPrefix
<1>2. CASE T.par[a] = p
  <2>1. T.par[b] = a /\ T.par[a] # b
    BY <1>2 DEF Near
  <2>2. T.path[b] = Append(T.path[a], b) /\ T.path[a] \in Seq(T.cells)
    BY <2>1, PathOf
  <2>3. ~ IsPrefix(T.path[a], T.path[t])
    BY <1>2 DEF Nearer
  <2>4. ~ IsPrefix(T.path[b], T.path[t])
    BY <1>0, <2>2, <2>3, PrefixLosesItsLast DEF IsStrictPrefix
  <2> QED BY <2>1, <2>4 DEF Nearer
<1> QED BY <1>1, <1>2 DEF Near

LEMMA TransferCells ==
  ASSUME NEW T, NEW fr \in Seq(Frames), NEW last, Chain(fr, last, T), NEW i \in 1 .. Len(fr),
         fr[i].fn = "reroot"
  PROVE  fr[i].cell \in T.cells
<1>1. PICK h \in [0 .. Len(fr) -> T.cells] :
         \A j \in 1 .. Len(fr) : Joint(fr, j, h[j - 1], h[j], T)
  BY DEF Chain
<1>2. Leads(fr[i], h[i - 1], h[i], T) /\ h[i - 1] \in T.cells
  BY <1>1 DEF Joint
<1> QED BY <1>2 DEF Leads

LEMMA RerootUpHolds ==
  ASSUME NEW T, TypeOK, Holds(T), RerootUp
  PROVE  TypeOK' /\ Holds(T)'
<1> DEFINE a == ctl.to
           b == cdr[a]
           f == RerootFrame(a)
           m == Len(conr)
<1>1. Still /\ fuel' = fuel /\ ~ Pending /\ a # tch /\ conr' = Append(conr, f) /\ ctl' = Reroot(b)
  BY DEF RerootUp, tree, errs, Still, Pending
<1>2. Chain(conr, a, T) /\ Onward /\ conr \in Seq(Frames)
  BY DEF RerootUp, Holds, Running, TypeOK
<1>3. a \in T.cells /\ T.cells = Used /\ Family(T) /\ Links(T) /\ Fits(T)
  BY <1>2, ChainEnds DEF Holds, Fits
<1>4. b \in T.cells /\ Near(a, b, T) /\ a \in Cells /\ b \in Cells /\ a \in Used /\ b \in Used
  BY <1>1, <1>3, CellNumbers DEF Links
<1>5. f \in Frames /\ f.fn = "reroot" /\ f.cell = a
  BY <1>4, Constructors DEF RerootFrame, Frame, Waiting, Values
<1>6. m \in Nat /\ Append(conr, f)[m + 1] = f /\ \A j \in 1 .. m : Append(conr, f)[j] = conr[j]
  BY <1>2
<1>7. ASSUME NEW n \in 0 .. m, Transferring(Append(conr, f), n, m + 1)
      PROVE  Nearer(a, b, Append(conr, f)[n + 1].cell, T)
  <2>1. CASE n = m
    BY <1>3, <1>4, <1>5, <1>6, <2>1, FirstMove
  <2>2. CASE n # m
    <3>1. m \in 1 .. m /\ n \in 0 .. m - 1 /\ n + 1 \in 1 .. m
      BY <1>6, <2>2
    <3>2. \A j \in n + 1 .. m : conr[j].fn = "reroot"
      BY <1>6, <1>7, <3>1 DEF Transferring
    <3>3. n = 0 \/ conr[n].fn # "reroot"
      BY <1>6, <1>7, <3>1 DEF Transferring
    <3>4. Transferring(conr, n, m)
      BY <3>2, <3>3 DEF Transferring
    <3>5. conr # <<>> /\ Top = conr[m]
      BY <3>1 DEF Top, Last
    <3>6. PICK p \in T.cells : Joint(conr, m, p, a, T)
      BY <1>2, <3>5, ChainPop
    <3>7. Top.fn = "reroot"
      BY <3>1, <3>2, <3>5
    <3>8. Top.cell = p /\ Near(p, a, T) /\ cdr[p] = a
      BY <1>2, <3>5, <3>6, <3>7 DEF Joint, Leads, Onward
    <3>9. b # p
      <4> HIDE DEF a
      <4> QED BY <1>3, <1>4, <3>8, NoWayBack
    <3>10. Nearer(p, a, conr[n + 1].cell, T)
      BY <3>1, <3>4, <3>6 DEF Joint, Directed
    <3>11. conr[n + 1].fn = "reroot"
      BY <3>1, <3>2
    <3>12. conr[n + 1].cell \in T.cells
      BY <1>2, <3>1, <3>11, TransferCells
    <3>13. Nearer(a, b, conr[n + 1].cell, T)
      <4> HIDE DEF a, b
      <4> QED BY <1>3, <1>4, <3>8, <3>9, <3>10, <3>12, NextMove
    <3> QED BY <1>6, <3>1, <3>13
  <2> QED BY <2>1, <2>2
<1>8. Leads(f, a, b, T)
  BY <1>4, <1>5 DEF Leads
<1>9. Joint(Append(conr, f), m + 1, a, b, T)
  <2>1. (m + 1) - 1 = m
    BY <1>6
  <2> HIDE DEF a, b, f, m
  <2> QED BY <1>6, <1>7, <1>8, <2>1 DEF Joint, Directed
<1>10. Chain(conr', b, T)
  <2> HIDE DEF a, b, f
  <2> QED BY <1>1, <1>2, <1>4, <1>5, <1>9, ChainPush
<1>11. conr' \in Seq(Frames) /\ conr' # <<>> /\ Last(conr') = f
  BY <1>1, <1>2, <1>5, <1>6 DEF Last
<1>12. ctl' \in CtlType /\ ~ Pending' /\ ctl'.op = "reroot" /\ ctl'.to = b
  BY <1>1, <1>4, Constructors DEF Pending, Reroot
<1>13. cdr' = cdr
  BY <1>1 DEF Still
<1>14. Running(T)'
  <2>1. Onward'
    BY <1>5, <1>11, <1>12, <1>13 DEF Onward, Top
  <2> HIDE DEF a, b, f
  <2> QED BY <1>10, <1>12, <2>1 DEF Running
<1> QED BY <1>1, <1>11, <1>12, <1>14, StillHolds DEF TypeOK

(* Which thunk a move calls: the before thunk of the cell that it enters,   *)
(* or the after thunk of the cell that it leaves.                           *)
LEMMA EdgeAtRoot ==
  ASSUME NEW T, TypeOK, Family(T), Fits(T), Links(T), NEW a \in Used, Near(a, tch, T)
  PROVE  /\ a # tch /\ cdr[a] = tch
         /\ T.par[a] = tch =>
               a # Base /\ Upright(a, T) /\ Before(a) = Pair(a, T.kont[a]).into
         /\ T.par[tch] = a =>
               /\ tch # Base /\ Upturned(tch, T) /\ Before(a) = Pair(tch, T.kont[tch]).out
               /\ cdr[T.par[tch]] = tch
<1>1. a # tch /\ tch \in Used /\ cdr[tch] = Nil /\ Nil \notin Used /\ a \in T.cells /\ tch \in T.cells
  BY CellNumbers DEF Fits, Links, TypeOK
<1>2. CASE T.par[a] = tch
  <2>1. a \in Used \ {Base} /\ T.par[tch] # a
    <3>1. a # Base
      BY <1>1, <1>2, CellNumbers DEF Family
    <3>2. T.par[a] < a /\ (tch # Base => T.par[tch] < tch) /\ (tch = Base => T.par[tch] = Nil)
      BY <1>1, <3>1 DEF Family
    <3> QED BY <1>1, <1>2, <3>1, <3>2, CellNumbers
  <2>2. Upright(a, T)
    <3>1. ~ Upturned(a, T)
      BY <1>1, <1>2 DEF Upturned
    <3> QED BY <2>1, <3>1 DEF Links
  <2> QED BY <1>1, <1>2, <2>1, <2>2 DEF Upright, Before
<1>3. CASE T.par[tch] = a
  <2>1. tch \in Used \ {Base} /\ T.par[a] # tch
    <3>1. tch # Base
      BY <1>1, <1>3, CellNumbers DEF Family
    <3>2. T.par[tch] < tch /\ (a # Base => T.par[a] < a) /\ (a = Base => T.par[a] = Nil)
      BY <1>1, <3>1 DEF Family
    <3> QED BY <1>1, <1>3, <3>1, <3>2, CellNumbers
  <2>2. Upturned(tch, T)
    <3>1. ~ Upright(tch, T)
      BY <1>1, <1>3 DEF Upright
    <3> QED BY <2>1, <3>1 DEF Links
  <2> QED BY <1>1, <1>3, <2>1, <2>2 DEF Upturned, Before
<1> QED BY <1>1, <1>2, <1>3 DEF Near

LEMMA PairTypes ==
  ASSUME NEW w \in Cells, NEW k \in {Base} \cup Konts
  PROVE  /\ Pair(w, k) \in [into : Thunks, out : Thunks]
         /\ Pair(w, k).into.wind = w /\ Pair(w, k).into.side = "before" /\ Pair(w, k).into.kont = k
         /\ Pair(w, k).out.wind = w /\ Pair(w, k).out.side = "after" /\ Pair(w, k).out.kont = k
         /\ Pair(w, k) = [into |-> Pair(w, k).into, out |-> Pair(w, k).out]
BY DEF Pair, Thunks

Move(a) ==
  /\ car' = Turned(a) /\ cdr' = Linked(a) /\ tch' = a
  /\ UNCHANGED <<konts, exh, old>>

LEMMA TreeTurns ==
  ASSUME NEW T, TypeOK, Family(T), Fits(T), Links(T), NEW a \in Used, Near(a, tch, T), Move(a)
  PROVE  /\ Used' = Used /\ Fits(T)' /\ Links(T)'
         /\ car' \in [Used -> [into : Thunks, out : Thunks]]
         /\ cdr' \in [Used -> Cells \cup {Nil}]
         /\ cdr' = [c \in Used |-> IF c = a THEN Nil ELSE IF c = tch THEN a ELSE cdr[c]]
<1>1. /\ T.cells = Used /\ tch \in Used /\ a # tch /\ cdr[a] = tch /\ cdr[tch] = Nil /\ Nil \notin Used
      /\ Used \subseteq Cells
  BY EdgeAtRoot, CellNumbers DEF Fits, TypeOK, Links
<1>2. cdr' = [c \in Used |-> IF c = a THEN Nil ELSE IF c = tch THEN a ELSE cdr[c]]
  BY <1>1 DEF Move, Linked, TypeOK
<1>3. car' = [c \in Used |-> IF c = a THEN [into |-> Dead, out |-> Dead]
                             ELSE IF c = tch THEN [into |-> car[a].out, out |-> car[a].into]
                             ELSE car[c]]
  BY <1>1 DEF Move, Turned, TypeOK
<1>4. Used' = Used
  BY <1>3 DEF Used
<1>5. car' \in [Used -> [into : Thunks, out : Thunks]]
  <2>1. car[a] \in [into : Thunks, out : Thunks]
    BY DEF TypeOK
  <2>2. \A c \in Used : car[c] \in [into : Thunks, out : Thunks]
    BY DEF TypeOK
  <2>3. [into |-> car[a].out, out |-> car[a].into] \in [into : Thunks, out : Thunks]
        /\ [into |-> Dead, out |-> Dead] \in [into : Thunks, out : Thunks]
    BY <2>1, Constructors
  <2> QED BY <1>3, <2>2, <2>3
<1>6. cdr' \in [Used -> Cells \cup {Nil}]
  BY <1>1, <1>2 DEF TypeOK
<1>7. Fits(T)'
  BY <1>4 DEF Fits, Move
<1>8. cdr'[tch'] = Nil
  BY <1>2 DEF Move
<1>9. ASSUME NEW c \in Used \ {a} PROVE cdr'[c] \in Used /\ Near(c, cdr'[c], T)
  <2>1. CASE c = tch
    BY <1>1, <1>2, <2>1 DEF Near
  <2>2. CASE c # tch
    BY <1>2, <1>9, <2>2 DEF Links
  <2> QED BY <2>1, <2>2
<1>10. ASSUME NEW c \in Used \ {Base} PROVE Upright(c, T)' \/ Upturned(c, T)'
  <2> DEFINE q == T.par[c]
  <2>1. q \in Used /\ q # c /\ T.kont[c] \in {Base} \cup Konts /\ c \in Cells
    <3>1. q \in Used /\ Near(c, q, T)
      BY <1>1, <1>10 DEF Family, Near
    <3>2. Len(T.land) = Len(konts) /\ Len(konts) <= MaxKonts /\ MaxKonts \in Nat /\ Len(konts) \in Nat
      BY WindingAssumption DEF Fits, TypeOK
    <3>3. T.kont[c] \in {Base} \cup Konts
      <4>1. T.kont[c] \in 0 .. Len(T.land)
        BY <1>1, <1>10 DEF Family
      <4> QED BY <3>2, <4>1 DEF Base, Konts
    <3>4. q # c
      BY <1>1, <1>10, <3>1, CellNumbers
    <3> QED BY <1>1, <3>1, <3>3, <3>4
  <2>2. CASE c = a /\ q = tch
    <3>1. Upright(a, T) /\ cdr'[tch] = a /\ cdr'[a] = Nil
      BY <1>1, <1>2, <2>2, EdgeAtRoot
    <3>2. car'[tch] = [into |-> car[a].out, out |-> car[a].into]
      BY <1>1, <1>3
    <3> QED BY <1>1, <2>1, <2>2, <3>1, <3>2 DEF Upright, Upturned
  <2>3. CASE c = tch /\ q = a
    <3>1. Upturned(tch, T) /\ cdr'[tch] = a /\ cdr'[a] = Nil
      BY <1>1, <1>2, <2>3, EdgeAtRoot
    <3>2. car'[tch] = [into |-> car[a].out, out |-> car[a].into]
      BY <1>1, <1>3
    <3>3. car'[tch] = Pair(tch, T.kont[tch])
      BY <2>1, <2>3, <3>1, <3>2, PairTypes DEF Upturned
    <3> QED BY <1>1, <2>1, <2>3, <3>1, <3>3 DEF Upright
  <2>4. CASE ~ (c = a /\ q = tch) /\ ~ (c = tch /\ q = a)
    <3>1. CASE Upright(c, T)
      <4>1. c # tch /\ c # a
        BY <1>1, <2>1, <2>4, <3>1 DEF Upright
      <4>2. cdr'[c] = cdr[c] /\ car'[c] = car[c] /\ cdr'[q] # c
        BY <1>1, <1>2, <1>3, <2>1, <3>1, <4>1 DEF Upright
      <4> QED BY <3>1, <4>2 DEF Upright
    <3>2. CASE Upturned(c, T)
      <4>1. q # tch /\ q # a
        BY <1>1, <2>1, <2>4, <3>2 DEF Upturned
      <4>2. cdr'[q] = cdr[q] /\ car'[q] = car[q] /\ cdr'[c] # q
        BY <1>1, <1>2, <1>3, <2>1, <3>2, <4>1 DEF Upturned
      <4> QED BY <3>2, <4>2 DEF Upturned
    <3> QED BY <3>1, <3>2 DEF Links
  <2> QED BY <2>2, <2>3, <2>4
<1>11. Links(T)'
  <2>1. tch' = a
    BY DEF Move
  <2>2. \A c \in Used' \ {tch'} : cdr'[c] \in Used' /\ Near(c, cdr'[c], T)
    BY <1>4, <1>9, <2>1
  <2> QED BY <1>4, <1>8, <1>10, <2>2 DEF Links, Near
<1> QED BY <1>2, <1>4, <1>5, <1>6, <1>7, <1>11

LEMMA HandlersMove ==
  ASSUME NEW T, TypeOK, Family(T), Fits(T), Links(T), Handlers(T), ~ Pending,
         NEW a \in Used, Near(a, tch, T), Move(a), ctl' = Run(Before(a))
  PROVE  Handlers(T)'
<1>1. /\ T.cells = Used /\ tch \in Used /\ a # tch /\ Nil \notin Used /\ Used' = Used /\ Used \subseteq Cells
      /\ cdr' = [c \in Used |-> IF c = a THEN Nil ELSE IF c = tch THEN a ELSE cdr[c]]
      /\ tch' = a /\ exh' = exh /\ old' = old
  <2>1. a # tch
    BY EdgeAtRoot
  <2>2. Used' = Used
        /\ cdr' = [c \in Used |-> IF c = a THEN Nil ELSE IF c = tch THEN a ELSE cdr[c]]
    BY TreeTurns
  <2>3. T.cells = Used /\ tch \in Used
    BY DEF Fits, TypeOK
  <2>4. Nil \notin Used /\ Used \subseteq Cells
    BY <2>3, CellNumbers
  <2> QED BY <2>1, <2>2, <2>3, <2>4 DEF Move
<1>2. exh = T.hand[tch]
  BY DEF Handlers
<1>3. ctl'.op = "run" /\ ctl'.thunk = Before(a)
  BY DEF Run
<1>4. ASSUME NEW c \in Used \ {Base}
      PROVE  /\ c \in Cells /\ T.kont[c] \in {Base} \cup Konts /\ T.par[c] \in Used
             /\ T.kont[c] = Base => T.hand[c] = T.hand[T.par[c]]
  <2>1. T.kont[c] \in 0 .. Len(T.land) /\ T.par[c] \in Used
        /\ (T.kont[c] = Base => T.hand[c] = T.hand[T.par[c]])
    BY <1>1 DEF Family
  <2>2. Len(T.land) = Len(konts) /\ Len(konts) <= MaxKonts /\ MaxKonts \in Nat /\ Len(konts) \in Nat
    BY WindingAssumption DEF Fits, TypeOK
  <2>3. T.kont[c] \in {Base} \cup Konts
    BY <2>1, <2>2 DEF Base, Konts
  <2> QED BY <1>1, <2>1, <2>3
<1>5. ASSUME NEW c \in Used \ {Base}, cdr'[T.par[c]] = c, ~ (c = a /\ T.par[a] = tch),
             T.kont[c] # Base
      PROVE  old[T.kont[c]] = T.hand[T.par[c]]
  <2>1. T.par[c] # a /\ T.par[c] # tch
    BY <1>1, <1>4, <1>5
  <2>2. cdr[T.par[c]] = c
    BY <1>1, <1>4, <1>5, <2>1
  <2>3. ~ Saving(c)
    BY DEF Saving
  <2> QED BY <1>5, <2>2, <2>3 DEF Handlers
<1>6. CASE T.par[a] = tch
  <2>1. a \in Used \ {Base} /\ Before(a) = Pair(a, T.kont[a]).into
    BY <1>6, EdgeAtRoot
  <2>2. Before(a).wind = a /\ Before(a).side = "before" /\ Before(a).kont = T.kont[a]
    BY <1>4, <2>1, PairTypes
  <2>3. Pending' <=> T.kont[a] # Base
    BY <1>3, <2>2 DEF Pending
  <2>4. Pending' => Called(a, T)'
    BY <1>1, <1>2, <1>3, <1>6, <2>1, <2>2 DEF Called
  <2>5. ~ Pending' => exh' = T.hand[tch']
    BY <1>1, <1>2, <1>4, <1>6, <2>1, <2>3
  <2>6. T.kont[a] # Base => Saving(a)'
    BY <1>3, <2>2, <2>3 DEF Saving
  <2>7. \A c \in Used' \ {Base} :
           T.kont[c] # Base /\ cdr'[T.par[c]] = c /\ ~ Saving(c)' => old'[T.kont[c]] = T.hand[T.par[c]]
    BY <1>1, <1>5, <2>6
  <2> QED BY <1>3, <2>2, <2>4, <2>5, <2>7 DEF Handlers
<1>7. CASE T.par[tch] = a
  <2>1. /\ tch \in Used \ {Base} /\ Before(a) = Pair(tch, T.kont[tch]).out /\ cdr[T.par[tch]] = tch
    BY <1>1, <1>7, EdgeAtRoot
  <2>2. Before(a).wind = tch /\ Before(a).side = "after" /\ Before(a).kont = T.kont[tch]
    BY <1>4, <2>1, PairTypes
  <2>3. Pending' <=> T.kont[tch] # Base
    BY <1>3, <2>2 DEF Pending
  <2>4. T.kont[tch] # Base => old[T.kont[tch]] = T.hand[T.par[tch]]
    <3>1. ~ Saving(tch)
      BY DEF Saving
    <3>2. \A c \in Used \ {Base} :
             T.kont[c] # Base /\ cdr[T.par[c]] = c /\ ~ Saving(c) => old[T.kont[c]] = T.hand[T.par[c]]
      BY DEF Handlers
    <3> QED BY <2>1, <3>1, <3>2
  <2>0. PICK b : b = tch
    OBVIOUS
  <2>5. Pending' => Called(b, T)'
    BY <1>1, <1>2, <1>3, <1>7, <2>0, <2>1, <2>2, <2>3, <2>4 DEF Called
  <2>6. ~ Pending' => exh' = T.hand[tch']
    BY <1>1, <1>2, <1>4, <1>7, <2>1, <2>3
  <2>7. T.par[a] # tch
    <3> SUFFICES ASSUME T.par[a] = tch PROVE FALSE
      OBVIOUS
    <3>1. a \in Nat /\ tch \in Nat /\ Nil # tch
      BY <1>1, CellNumbers
    <3>2. a < tch
      BY <1>1, <1>7, <2>1 DEF Family
    <3>3. a # Base
      BY <1>1, <3>1 DEF Family
    <3>4. tch < a
      BY <1>1, <3>3 DEF Family
    <3> QED BY <3>1, <3>2, <3>4
  <2>8. \A c \in Used' \ {Base} :
           T.kont[c] # Base /\ cdr'[T.par[c]] = c /\ ~ Saving(c)' => old'[T.kont[c]] = T.hand[T.par[c]]
    BY <1>1, <1>5, <2>7
  <2> QED BY <1>3, <2>0, <2>2, <2>5, <2>6, <2>8 DEF Handlers
<1> QED BY <1>6, <1>7 DEF Near

LEMMA MoveFacts ==
  ASSUME NEW T, TypeOK, Holds(T), RerootMove
  PROVE  /\ Top.cell \in Used /\ Near(Top.cell, tch, T) /\ Move(Top.cell)
         /\ ~ Pending /\ Chain(Front(conr), Top.cell, T) /\ Front(conr) \in Seq(Frames)
         /\ conr \in Seq(Frames) /\ conr # <<>> /\ Top = conr[Len(conr)] /\ Top.fn = "reroot"
         /\ Chain(conr, tch, T)
         /\ Directed(conr, Len(conr), Top.cell, tch, T)
<1>1. /\ ~ Pending /\ Top.fn = "reroot" /\ Front(conr) \in Seq(Frames) /\ conr # <<>>
      /\ ctl.op = "return"
      /\ \E a \in T.cells : /\ Chain(Front(conr), a, T) /\ Leads(Top, a, tch, T)
                            /\ Directed(conr, Len(conr), a, tch, T)
  BY Resumed DEF RerootMove
<1>2. T.cells = Used
  BY DEF Holds, Fits
<1>3. Move(Top.cell)
  BY DEF RerootMove, Move, errs
<1> QED BY <1>1, <1>2, <1>3 DEF Leads, Top, Last, TypeOK, Holds, Running

LEMMA RerootMoveHolds ==
  ASSUME NEW T, TypeOK, Holds(T), RerootMove
  PROVE  TypeOK' /\ Holds(T)'
<1> DEFINE a == Top.cell
<1>1. /\ a \in Used /\ Near(a, tch, T) /\ Move(a) /\ ~ Pending
      /\ Chain(Front(conr), a, T) /\ Front(conr) \in Seq(Frames)
  BY MoveFacts
<1>2. conr' = Front(conr) /\ fuel' = fuel /\ thunk' = Before(a) /\ ctl' = Run(Before(a))
  BY DEF RerootMove
<1> HIDE DEF a
<1>3. Family(T) /\ Fits(T) /\ Links(T) /\ Handlers(T) /\ Kept(T)
  BY DEF Holds
<1>4. /\ Used' = Used /\ Fits(T)' /\ Links(T)'
      /\ car' \in [Used -> [into : Thunks, out : Thunks]]
      /\ cdr' \in [Used -> Cells \cup {Nil}]
      /\ cdr' = [c \in Used |-> IF c = a THEN Nil ELSE IF c = tch THEN a ELSE cdr[c]]
  BY <1>1, <1>3, TreeTurns
<1>5. Handlers(T)'
  BY <1>1, <1>2, <1>3, HandlersMove
<1>6. tch' = a /\ konts' = konts /\ exh' = exh /\ old' = old
  BY <1>1 DEF Move
<1>7. Before(a) \in Thunks
  <2>1. car[a] \in [into : Thunks, out : Thunks]
    BY <1>1 DEF TypeOK
  <2> QED BY <2>1 DEF Before
<1>8. ctl' \in CtlType /\ ctl'.op = "run"
  BY <1>2, <1>7, Constructors DEF Run
<1>9. Used \subseteq Cells /\ Nil \notin Used
  BY <1>3, CellNumbers DEF Fits
<1>10. \A c \in Used' : (cdr'[c] = Nil) <=> (c = tch')
  BY <1>1, <1>4, <1>6, <1>9 DEF TypeOK
<1>11. TypeOK'
  BY <1>1, <1>2, <1>4, <1>6, <1>7, <1>8, <1>10 DEF TypeOK, CtlType
<1>12. Kept(T)' /\ Family(T)'
  BY <1>3, <1>6 DEF Kept
<1>13. Running(T)'
  BY <1>1, <1>2, <1>6, <1>8 DEF Running
<1> QED BY <1>4, <1>5, <1>11, <1>12, <1>13 DEF Holds

LEMMA ThunkHolds ==
  ASSUME NEW T, TypeOK, Holds(T), Savetexh \/ Restoretexh
  PROVE  TypeOK' /\ Holds(T)'
<1> DEFINE c == ctl.thunk.wind
           k == ctl.thunk.kont
<1>1. /\ UNCHANGED <<car, cdr, tch, konts, conr, fuel, thunk>>
      /\ ctl.op = "run" /\ k # Base /\ ctl' = Return("val")
  BY DEF Savetexh, Restoretexh, tree
<1>2. Called(c, T) /\ Running(T)
  BY <1>1 DEF Holds, Handlers, Pending
<1>3. /\ Family(T) /\ Fits(T) /\ Links(T) /\ Kept(T) /\ T.cells = Used /\ Used' = Used
      /\ c \in Used \ {Base} /\ T.kont[c] = k /\ T.par[c] \in Used
  BY <1>1, <1>2 DEF Holds, Called, Fits, Family, Used
<1>4. Len(T.land) = Len(konts) /\ Len(konts) <= MaxKonts /\ MaxKonts \in Nat /\ Len(konts) \in Nat
  BY WindingAssumption DEF Holds, Fits, TypeOK
<1>5. k \in 1 .. Len(konts) /\ k \in Konts
  <2>1. T.kont[c] \in 0 .. Len(T.land)
    BY <1>3 DEF Family
  <2> QED BY <1>1, <1>3, <1>4, <2>1 DEF Base, Konts
<1>6. "val" \in Values /\ ctl' \in CtlType /\ ctl'.op = "return" /\ ~ Pending'
  BY <1>1, Constructors DEF Values, Pending, Return
<1>8. \A d \in Used \ {Base} : d # c /\ T.kont[d] # Base => T.kont[d] # k
  BY <1>1, <1>3 DEF Family
<1>9. \A d \in Used \ {Base} : T.kont[d] # Base /\ cdr[T.par[d]] = d /\ ~ Saving(d)
                                 => old[T.kont[d]] = T.hand[T.par[d]]
  BY DEF Holds, Handlers
<1>10. CASE Savetexh
  <2>1. old' = [old EXCEPT ![k] = exh] /\ exh' = k /\ ctl.thunk.side = "before"
    BY <1>10 DEF Savetexh
  <2>2. tch = c /\ exh = T.hand[T.par[c]]
    BY <1>2, <2>1 DEF Called
  <2>3. exh' = T.hand[tch']
    BY <1>1, <1>3, <2>1, <2>2 DEF Family
  <2>4. old' \in [Konts -> 0 .. Len(konts)] /\ old'[k] = exh
        /\ \A j \in Konts : j # k => old'[j] = old[j]
    BY <1>5, <2>1 DEF TypeOK
  <2>5. ASSUME NEW d \in Used \ {Base}, T.kont[d] # Base, cdr[T.par[d]] = d
        PROVE  old'[T.kont[d]] = T.hand[T.par[d]]
    <3>1. CASE d = c
      BY <1>3, <2>2, <2>4, <3>1
    <3>2. CASE d # c
      <4>1. ~ Saving(d) /\ T.kont[d] # k
        BY <1>8, <2>5, <3>2 DEF Saving
      <4>2. T.kont[d] \in 0 .. Len(T.land)
        BY <1>3, <2>5 DEF Family
      <4>3. T.kont[d] \in Konts
        BY <1>4, <2>5, <4>2 DEF Base, Konts
      <4> QED BY <1>9, <2>4, <2>5, <4>1, <4>3
    <3> QED BY <3>1, <3>2
  <2>6. Handlers(T)'
    BY <1>1, <1>3, <1>6, <2>3, <2>5 DEF Handlers
  <2>7. exh' \in 0 .. Len(konts)
    BY <1>5, <2>1
  <2>8. TypeOK'
    BY <1>1, <1>3, <1>6, <2>4, <2>7 DEF TypeOK, CtlType
  <2> QED BY <1>1, <1>2, <1>3, <1>6, <2>6, <2>8 DEF Holds, Running, Fits, Links, Upright, Upturned, Kept
<1>11. CASE Restoretexh
  <2>1. old' = old /\ exh' = old[k] /\ ctl.thunk.side = "after"
    BY <1>11 DEF Restoretexh, Restored
  <2>2. tch = T.par[c] /\ old[k] = T.hand[T.par[c]]
    BY <1>2, <1>3, <2>1 DEF Called
  <2>3. \A d : ~ Saving(d)
    BY <2>1 DEF Saving
  <2>4. Handlers(T)'
    BY <1>1, <1>3, <1>6, <1>9, <2>1, <2>2, <2>3 DEF Handlers
  <2>5. exh' \in 0 .. Len(konts)
    BY <1>5, <2>1 DEF TypeOK
  <2>6. TypeOK'
    BY <1>1, <1>3, <1>6, <2>1, <2>5 DEF TypeOK, CtlType
  <2> QED BY <1>1, <1>2, <1>3, <1>6, <2>4, <2>6 DEF Holds, Running, Fits, Links, Upright, Upturned, Kept
<1> QED BY <1>10, <1>11
-----------------------------------------------------------------------------
(***************************************************************************)
(* Winds and captures: the family of cells grows.                          *)
(***************************************************************************)
KontType == [frames : Seq(Frames), tch : Cells]

LEMMA Captured ==
  ASSUME NEW T, TypeOK, Holds(T), NEW fr \in Seq(Frames), Chain(fr, tch, T),
         Len(konts) < MaxKonts, konts' = Append(konts, [frames |-> fr, tch |-> tch])
  PROVE  LET U == WithKont(T, tch) IN
         /\ Family(U) /\ Extends(T, U)
         /\ konts' \in Seq(KontType) /\ Len(konts') = Len(konts) + 1 /\ Len(konts') <= MaxKonts
         /\ Len(konts) \in Nat
         /\ Len(U.land) = Len(konts')
         /\ \A k \in 1 .. Len(konts') : U.land[k] = konts'[k].tch
         /\ \A k \in 1 .. Len(konts') : Chain(konts'[k].frames, konts'[k].tch, U)
         /\ U.cells = T.cells /\ U.par = T.par /\ U.kont = T.kont /\ U.hand = T.hand
<1> DEFINE U == WithKont(T, tch)
           n == Len(konts) + 1
           new == [frames |-> fr, tch |-> tch]
<1>1. tch \in T.cells /\ tch \in Cells /\ Family(T)
  BY DEF Holds, Fits, TypeOK
<1>2. Family(U) /\ Extends(T, U)
  BY <1>1, KontIsNew
<1>3. /\ U.land = Append(T.land, tch)
      /\ U.cells = T.cells /\ U.par = T.par /\ U.kont = T.kont /\ U.hand = T.hand
  BY DEF WithKont
<1> HIDE DEF U
<1>4. new \in KontType /\ konts \in Seq(KontType) /\ MaxKonts \in Nat /\ T.land \in Seq(T.cells)
  BY <1>1, WindingAssumption DEF TypeOK, KontType, Holds, Family
<1>5. /\ konts' \in Seq(KontType) /\ Len(konts') = n /\ Len(konts) \in Nat
      /\ konts'[n] = new /\ \A k \in 1 .. Len(konts) : konts'[k] = konts[k]
  <2> HIDE DEF new
  <2> QED BY <1>4 DEF new
<1>6. n <= MaxKonts
  BY <1>4, <1>5
<1>7. /\ Len(T.land) = Len(konts) /\ Len(U.land) = n /\ U.land[n] = tch
      /\ \A k \in 1 .. Len(konts) : U.land[k] = T.land[k]
  BY <1>3, <1>4, KontFacts
<1>8. \A k \in 1 .. n : U.land[k] = konts'[k].tch
  BY <1>5, <1>7, KontFacts
<1>9. ASSUME NEW k \in 1 .. n PROVE Chain(konts'[k].frames, konts'[k].tch, U)
  <2>1. CASE k = n
    <3>1. konts'[k].frames = fr /\ konts'[k].tch = tch
      BY <1>5, <2>1
    <3> QED BY <1>2, <3>1, ChainExtends
  <2>2. CASE k # n
    <3>1. k \in DOMAIN konts /\ konts'[k] = konts[k]
      BY <1>4, <1>5, <2>2
    <3>2. Chain(konts[k].frames, konts[k].tch, T) /\ konts[k].frames \in Seq(Frames)
      BY <3>1, KontFacts
    <3> QED BY <1>2, <3>1, <3>2, ChainExtends
  <2> QED BY <2>1, <2>2
<1> QED BY <1>2, <1>3, <1>5, <1>6, <1>7, <1>8, <1>9 DEF U

LEMMA CaptureHolds ==
  ASSUME NEW T, TypeOK, Holds(T), Capture
  PROVE  TypeOK' /\ \E U : Holds(U)' /\ Extends(T, U)
<1> DEFINE U == WithKont(T, tch)
<1>1. /\ UNCHANGED <<car, cdr, tch, thunk, exh, old, conr, ctl>> /\ Len(konts) < MaxKonts
  BY DEF Capture, tree, errs
<1>2. Chain(conr, tch, T) /\ ~ Pending /\ fuel' \in 0 .. Fuel /\ ctl.op = "run" /\ conr \in Seq(Frames)
  BY ActFacts DEF Capture, TypeOK
<1>3. PICK tail \in {FALSE, TailCaptures} :
         konts' = Append(konts, [frames |-> IF tail THEN conr ELSE Append(conr, Body), tch |-> tch])
  BY DEF Capture
<1> DEFINE fr == IF tail THEN conr ELSE Append(conr, Body)
<1>4. fr \in Seq(Frames) /\ Chain(fr, tch, T)
  BY <1>2, CallerWaits DEF Capture
<1>5. /\ Family(U) /\ Extends(T, U)
      /\ konts' \in Seq(KontType) /\ Len(konts') = Len(konts) + 1 /\ Len(konts') <= MaxKonts
      /\ Len(konts) \in Nat
      /\ Len(U.land) = Len(konts')
      /\ \A k \in 1 .. Len(konts') : U.land[k] = konts'[k].tch
      /\ \A k \in 1 .. Len(konts') : Chain(konts'[k].frames, konts'[k].tch, U)
      /\ U.cells = T.cells /\ U.par = T.par /\ U.kont = T.kont /\ U.hand = T.hand
  <2> HIDE DEF fr
  <2>1. konts' = Append(konts, [frames |-> fr, tch |-> tch])
    BY <1>3 DEF fr
  <2> QED BY <1>1, <1>4, <2>1, Captured
<1>6. Chain(conr, tch, U)
  BY <1>2, <1>5, ChainExtends
<1>7. PICK V : V = U
  OBVIOUS
<1> HIDE DEF U
<1>8. Used' = Used /\ Fits(V)' /\ Links(V)'
  <2>1. Used' = Used
    BY <1>1 DEF Used
  <2>2. Fits(V)'
    BY <1>5, <1>7, <2>1 DEF Holds, Fits
  <2>3. Links(V)'
    BY <1>1, <1>5, <1>7, <2>1 DEF Holds, Links, Upright, Upturned, Near
  <2> QED BY <2>1, <2>2, <2>3
<1>9. Handlers(V)'
  BY <1>1, <1>2, <1>5, <1>7, <1>8 DEF Holds, Handlers, Pending, Saving
<1>10. Kept(V)' /\ Running(V)' /\ Family(V)'
  BY <1>1, <1>2, <1>5, <1>6, <1>7 DEF Kept, Running
<1>11. exh' \in 0 .. Len(konts') /\ old' \in [Konts -> 0 .. Len(konts')]
  <2>1. 0 .. Len(konts) \subseteq 0 .. Len(konts')
    BY <1>5
  <2>2. exh \in 0 .. Len(konts) /\ old \in [Konts -> 0 .. Len(konts)]
    BY DEF TypeOK
  <2> QED BY <1>1, <2>1, <2>2
<1>12. TypeOK'
  BY <1>1, <1>2, <1>5, <1>8, <1>11 DEF TypeOK, KontType
<1>13. Holds(V)' /\ Extends(T, V)
  BY <1>5, <1>7, <1>8, <1>9, <1>10 DEF Holds
<1> QED BY <1>12, <1>13

(* arc_dynamic_wind makes the cell and moves to it.                         *)
LEMMA Wound ==
  ASSUME NEW T, TypeOK, Family(T), T.cells = Used, Links(T),
         NEW fs \in Seq(Frames), Chain(conr \o fs, tch, T), NEW k \in 0 .. MaxKonts,
         k \in 0 .. Len(T.land), \A c \in Used : k # Base => T.kont[c] # k,
         WindFrom(fs, k)
  PROVE  \E U :
         /\ Family(U) /\ Extends(T, U) /\ U.cells = Used' /\ U.land = T.land
         /\ Used' \subseteq Cells /\ tch' = tch /\ tch \in Used' /\ thunk' = thunk
         /\ car' \in [Used' -> [into : Thunks, out : Thunks]]
         /\ cdr' \in [Used' -> Cells \cup {Nil}]
         /\ \A c \in Used' : (cdr'[c] = Nil) <=> (c = tch)
         /\ \A c \in Used' \ {Base} :
               cdr'[U.par[c]] = c => c \in Used /\ U.par[c] \in Used /\ cdr[T.par[c]] = c
         /\ cdr'[tch] = Nil
         /\ \A c \in Used' \ {tch} : cdr'[c] \in Used' /\ Near(c, cdr'[c], U)
         /\ \A c \in Used' \ {Base} : Upright(c, U)' \/ Upturned(c, U)'
         /\ conr' \in Seq(Frames) /\ ctl' \in CtlType /\ ctl'.op = "reroot"
         /\ Chain(conr', ctl'.to, U) /\ Last(conr').fn = "entering"
<1>0. PICK f, U : f = Fresh /\ U = WithCell(T, f, tch, k)
  OBVIOUS
<1>1. PICK n \in Cells : Used = 0 .. n
  BY DEF Family
<1>2. f = n + 1 /\ n \in Nat /\ f \in Cells /\ f \in Nat /\ MaxCells \in Nat
  <2>1. Cardinality(0 .. n) = n + 1 /\ n \in Nat
    BY WindingAssumption, FS_Interval DEF Cells
  <2> QED BY <1>0, <1>1, <2>1, WindingAssumption DEF Fresh, WindFrom, Cells
<1>3. T.cells = 0 .. f - 1 /\ tch \in Used /\ f # Base /\ f \notin Used /\ Nil \notin Used /\ f # Nil
      /\ Base \in Used /\ Used \subseteq Cells
  BY <1>1, <1>2, CellNumbers DEF Base, TypeOK, Nil, Cells
<1>4. Family(U) /\ Extends(T, U)
  BY <1>0, <1>2, <1>3, CellIsNew
<1>5. /\ U.cells = Used \cup {f} /\ U.land = T.land /\ U.par[f] = tch /\ U.kont[f] = k
      /\ \A c \in Used : U.par[c] = T.par[c] /\ U.kont[c] = T.kont[c]
  BY <1>0, <1>4 DEF WithCell, Extends
<1>6. /\ car' = [c \in Used \cup {f} |-> IF c = f THEN Pair(c, k) ELSE car[c]]
      /\ cdr' = [c \in Used \cup {f} |-> IF c = f THEN tch ELSE cdr[c]]
      /\ tch' = tch /\ thunk' = thunk
      /\ conr' = conr \o fs \o <<Frame("entering", tch, k, "val")>>
      /\ ctl' = Reroot(f)
  BY <1>0 DEF WindFrom
<1>7. Used' = Used \cup {f} /\ Used' \subseteq Cells
  BY <1>2, <1>3, <1>6 DEF Used
<1>8. car' \in [Used' -> [into : Thunks, out : Thunks]]
  <2>1. k \in {Base} \cup Konts
    BY WindingAssumption DEF Base, Konts
  <2>2. Pair(f, k) \in [into : Thunks, out : Thunks]
    BY <1>2, <2>1, PairTypes
  <2> QED BY <1>6, <1>7, <2>2 DEF TypeOK
<1>9. cdr' \in [Used' -> Cells \cup {Nil}]
  BY <1>3, <1>6, <1>7 DEF TypeOK
<1>10. \A c \in Used' : (cdr'[c] = Nil) <=> (c = tch)
  BY <1>3, <1>6, <1>7 DEF TypeOK
<1>11. \A c \in Used \ {Base} : T.par[c] \in Used /\ T.par[c] # f
  <2>1. \A c \in Used \ {Base} : T.par[c] \in Used
    BY DEF Family
  <2> QED BY <1>3, <2>1
<1>12. ASSUME NEW c \in Used' \ {Base}, cdr'[U.par[c]] = c
       PROVE  c \in Used /\ U.par[c] \in Used /\ cdr[T.par[c]] = c
  <2>1. c # f
    <3> SUFFICES ASSUME c = f PROVE FALSE
      OBVIOUS
    <3>1. cdr'[tch] = f
      BY <1>5, <1>12
    <3> QED BY <1>3, <1>7, <1>10, <3>1
  <2> QED BY <1>5, <1>6, <1>7, <1>11, <1>12, <2>1
<1>13. ASSUME NEW c \in Used' \ {tch} PROVE cdr'[c] \in Used' /\ Near(c, cdr'[c], U)
  <2>1. CASE c = f
    BY <1>3, <1>5, <1>6, <1>7, <2>1 DEF Near
  <2>2. CASE c # f
    <3>1. c \in Used \ {tch} /\ cdr'[c] = cdr[c]
      BY <1>6, <1>7, <2>2
    <3>2. cdr[c] \in Used /\ Near(c, cdr[c], T)
      BY <3>1 DEF Links
    <3> QED BY <1>5, <1>7, <3>1, <3>2 DEF Near
  <2> QED BY <2>1, <2>2
<1>14. ASSUME NEW c \in Used' \ {Base} PROVE Upright(c, U)' \/ Upturned(c, U)'
  <2>1. CASE c = f
    <3>1. cdr'[f] = tch /\ cdr'[tch] # f /\ car'[f] = Pair(f, k)
      BY <1>3, <1>6, <1>7, <1>10
    <3> QED BY <1>5, <2>1, <3>1 DEF Upright
  <2>2. CASE c # f
    <3>1. /\ c \in Used \ {Base} /\ U.par[c] = T.par[c] /\ T.par[c] \in Used
          /\ U.kont[c] = T.kont[c]
      BY <1>5, <1>7, <1>11, <2>2
    <3>2. /\ cdr'[c] = cdr[c] /\ cdr'[T.par[c]] = cdr[T.par[c]]
          /\ car'[c] = car[c] /\ car'[T.par[c]] = car[T.par[c]]
      BY <1>3, <1>6, <3>1
    <3>3. CASE Upright(c, T)
      BY <3>1, <3>2, <3>3 DEF Upright
    <3>4. CASE Upturned(c, T)
      BY <3>1, <3>2, <3>4 DEF Upturned
    <3> QED BY <3>1, <3>3, <3>4 DEF Links
  <2> QED BY <2>1, <2>2
<1>15. /\ conr' \in Seq(Frames) /\ Chain(conr', f, U) /\ Last(conr').fn = "entering"
  <2> DEFINE fr == conr \o fs
             e == Frame("entering", tch, k, "val")
  <2>1. fr \in Seq(Frames) /\ tch \in Cells
    BY <1>3 DEF TypeOK
  <2>2. e \in Frames /\ e.fn = "entering" /\ e.cell = tch /\ e.kont = k
    BY <2>1, Constructors DEF Frame, Waiting, Values
  <2> HIDE DEF e
  <2>3. Leads(e, tch, f, U)
    BY <1>3, <1>5, <2>2 DEF Leads
  <2>4. Chain(fr, tch, U)
    BY <1>4, <2>1, ChainExtends
  <2>5. Chain(Append(fr, e), f, U)
    BY <1>5, <2>1, <2>2, <2>3, <2>4, ChainPushPlain
  <2>6. conr' = Append(fr, e)
    BY <1>6, <2>1, <2>2 DEF e
  <2>7. Append(fr, e) \in Seq(Frames) /\ Last(Append(fr, e)) = e
    <3> HIDE DEF fr
    <3> QED BY <2>1, <2>2 DEF Last
  <2> QED BY <2>2, <2>5, <2>6, <2>7
<1>16. ctl' \in CtlType /\ ctl'.op = "reroot" /\ ctl'.to = f
  BY <1>2, <1>6, Constructors DEF Reroot
<1>17. cdr'[tch] = Nil /\ tch \in Used'
  BY <1>3, <1>7, <1>10
<1> QED BY <1>4, <1>5, <1>6, <1>7, <1>8, <1>9, <1>10, <1>12, <1>13, <1>14, <1>15, <1>16, <1>17

LEMMA WindHolds ==
  ASSUME NEW T, TypeOK, Holds(T), Wind
  PROVE  TypeOK' /\ \E U : Holds(U)' /\ Extends(T, U)
<1>1. Chain(conr, tch, T) /\ ~ Pending /\ fuel' \in 0 .. Fuel /\ conr \in Seq(Frames)
  BY ActFacts DEF Wind, TypeOK
<1>2. WindFrom(<<Body>>, Base) /\ UNCHANGED <<konts, exh, old>>
  BY DEF Wind
<1>3. conr \o <<Body>> = Append(conr, Body) /\ <<Body>> \in Seq(Frames)
  BY <1>1, Constructors
<1>4. Chain(conr \o <<Body>>, tch, T)
  BY <1>1, <1>3, CallerWaits
<1>5. Base \in 0 .. MaxKonts /\ Base \in 0 .. Len(T.land)
  BY KontFacts DEF Base
<1>6. Family(T) /\ T.cells = Used /\ Links(T) /\ Handlers(T) /\ Fits(T) /\ Kept(T)
  BY DEF Holds, Fits
<1>7. PICK U :
         /\ Family(U) /\ Extends(T, U) /\ U.cells = Used' /\ U.land = T.land
         /\ Used' \subseteq Cells /\ tch' = tch /\ tch \in Used' /\ thunk' = thunk
         /\ car' \in [Used' -> [into : Thunks, out : Thunks]]
         /\ cdr' \in [Used' -> Cells \cup {Nil}]
         /\ \A c \in Used' : (cdr'[c] = Nil) <=> (c = tch)
         /\ \A c \in Used' \ {Base} :
               cdr'[U.par[c]] = c => c \in Used /\ U.par[c] \in Used /\ cdr[T.par[c]] = c
         /\ cdr'[tch] = Nil
         /\ \A c \in Used' \ {tch} : cdr'[c] \in Used' /\ Near(c, cdr'[c], U)
         /\ \A c \in Used' \ {Base} : Upright(c, U)' \/ Upturned(c, U)'
         /\ conr' \in Seq(Frames) /\ ctl' \in CtlType /\ ctl'.op = "reroot"
         /\ Chain(conr', ctl'.to, U) /\ Last(conr').fn = "entering"
  BY <1>2, <1>3, <1>4, <1>5, <1>6, Wound
<1>8. TypeOK'
  BY <1>1, <1>2, <1>7 DEF TypeOK, CtlType
<1>9. Fits(U)' /\ Links(U)'
  BY <1>2, <1>6, <1>7 DEF Fits, Links, Near
<1>10. Handlers(U)'
  <2>1. exh' = U.hand[tch'] /\ ~ Pending'
    <3>1. exh = T.hand[tch] /\ tch \in T.cells
      BY <1>1, <1>6 DEF Handlers, TypeOK
    <3> QED BY <1>2, <1>7, <3>1 DEF Extends, Pending
  <2>2. ASSUME NEW c \in Used' \ {Base}, U.kont[c] # Base, cdr'[U.par[c]] = c
        PROVE  old'[U.kont[c]] = U.hand[U.par[c]]
    <3>1. c \in Used \ {Base} /\ U.par[c] \in Used /\ cdr[T.par[c]] = c
      BY <1>7, <2>2
    <3>2. U.kont[c] = T.kont[c] /\ U.par[c] = T.par[c] /\ U.hand[U.par[c]] = T.hand[T.par[c]]
      BY <1>6, <1>7, <3>1 DEF Extends
    <3>3. ~ Saving(c)
      BY <1>1 DEF Saving
    <3> QED BY <1>2, <1>6, <2>2, <3>1, <3>2, <3>3 DEF Handlers
  <2> QED BY <2>1, <2>2 DEF Handlers
<1>11. Kept(U)'
  BY <1>2, <1>7, KontFacts, ChainExtends DEF Kept
<1>12. Running(U)'
  BY <1>7 DEF Running, Onward, Top
<1>13. Holds(U)'
  BY <1>7, <1>9, <1>10, <1>11, <1>12 DEF Holds
<1> QED BY <1>7, <1>8, <1>13

LEMMA OnErrHolds ==
  ASSUME NEW T, TypeOK, Holds(T), OnErr
  PROVE  TypeOK' /\ \E U : Holds(U)' /\ Extends(T, U)
<1>0. PICK k, g, S : /\ k = Len(konts) + 1 /\ g = Frame("onerr", Base, k, "val")
                     /\ S = WithKont(T, tch)
  OBVIOUS
<1>1. Chain(conr, tch, T) /\ ~ Pending /\ fuel' \in 0 .. Fuel /\ conr \in Seq(Frames)
  BY ActFacts DEF OnErr, TypeOK
<1>2. /\ WindFrom(<<Body, g>>, k) /\ UNCHANGED <<exh, old>> /\ Len(konts) < MaxKonts
      /\ konts' = Append(konts, [frames |-> conr \o <<Body, g>>, tch |-> tch])
  <2> DEFINE e == Frame("onerr", Base, Len(konts) + 1, "val")
  <2>1. /\ WindFrom(<<Body, e>>, Len(konts) + 1) /\ UNCHANGED <<exh, old>> /\ Len(konts) < MaxKonts
        /\ konts' = Append(konts, [frames |-> conr \o <<Body, e>>, tch |-> tch])
    BY DEF OnErr
  <2>2. k = Len(konts) + 1 /\ e = g
    BY <1>0
  <2> HIDE DEF e
  <2> QED BY <2>1, <2>2 DEF WindFrom
<1>3. k \in 0 .. MaxKonts /\ k # Base
  BY <1>0, <1>2, KontFacts DEF Base
<1>4. g \in Frames /\ g.fn = "onerr" /\ <<Body, g>> \in Seq(Frames)
  <2>1. g \in Frames
    BY <1>0, <1>3, Constructors DEF Waiting, Values
  <2>2. g.fn = "onerr"
    BY <1>0 DEF Frame
  <2> QED BY <2>1, <2>2, Constructors
<1>5. Leads(g, tch, tch, T) /\ tch \in T.cells
  BY <1>4 DEF Leads, Holds, Fits, TypeOK
<1>6. conr \o <<Body, g>> \in Seq(Frames) /\ Chain(conr \o <<Body, g>>, tch, T)
  BY <1>1, <1>4, <1>5, BodyAnd
<1>7. /\ Family(S) /\ Extends(T, S)
      /\ konts' \in Seq(KontType) /\ Len(konts') = Len(konts) + 1 /\ Len(konts') <= MaxKonts
      /\ Len(konts) \in Nat
      /\ Len(S.land) = Len(konts')
      /\ \A j \in 1 .. Len(konts') : S.land[j] = konts'[j].tch
      /\ \A j \in 1 .. Len(konts') : Chain(konts'[j].frames, konts'[j].tch, S)
      /\ S.cells = T.cells /\ S.par = T.par /\ S.kont = T.kont /\ S.hand = T.hand
  BY <1>0, <1>2, <1>6, Captured
<1>8. Family(T) /\ T.cells = Used /\ Links(T) /\ Handlers(T)
  BY DEF Holds, Fits
<1>9. Links(S) /\ Chain(conr \o <<Body, g>>, tch, S)
  <2>1. Links(S)
    BY <1>7, <1>8 DEF Links, Upright, Upturned, Near
  <2> QED BY <1>6, <1>7, <2>1, ChainExtends
<1>10. k \in 0 .. Len(S.land) /\ \A c \in Used : S.kont[c] # k
  <2>1. \A c \in Used : T.kont[c] \in 0 .. Len(konts)
    BY <1>8, KontFacts DEF Family
  <2> QED BY <1>0, <1>7, <2>1
<1>11. PICK U :
         /\ Family(U) /\ Extends(S, U) /\ U.cells = Used' /\ U.land = S.land
         /\ Used' \subseteq Cells /\ tch' = tch /\ tch \in Used' /\ thunk' = thunk
         /\ car' \in [Used' -> [into : Thunks, out : Thunks]]
         /\ cdr' \in [Used' -> Cells \cup {Nil}]
         /\ \A c \in Used' : (cdr'[c] = Nil) <=> (c = tch)
         /\ \A c \in Used' \ {Base} :
               cdr'[U.par[c]] = c => c \in Used /\ U.par[c] \in Used /\ cdr[S.par[c]] = c
         /\ cdr'[tch] = Nil
         /\ \A c \in Used' \ {tch} : cdr'[c] \in Used' /\ Near(c, cdr'[c], U)
         /\ \A c \in Used' \ {Base} : Upright(c, U)' \/ Upturned(c, U)'
         /\ conr' \in Seq(Frames) /\ ctl' \in CtlType /\ ctl'.op = "reroot"
         /\ Chain(conr', ctl'.to, U) /\ Last(conr').fn = "entering"
  BY <1>2, <1>3, <1>4, <1>7, <1>8, <1>9, <1>10, Wound
<1>12. exh' \in 0 .. Len(konts') /\ old' \in [Konts -> 0 .. Len(konts')]
  <2>1. 0 .. Len(konts) \subseteq 0 .. Len(konts')
    BY <1>7
  <2>2. exh \in 0 .. Len(konts) /\ old \in [Konts -> 0 .. Len(konts)]
    BY DEF TypeOK
  <2> QED BY <1>2, <2>1, <2>2
<1>13. TypeOK'
  BY <1>1, <1>7, <1>11, <1>12 DEF TypeOK, CtlType, KontType
<1>14. Fits(U)' /\ Links(U)'
  BY <1>7, <1>11 DEF Fits, Links, Near
<1>15. Handlers(U)'
  <2>1. exh' = U.hand[tch'] /\ ~ Pending'
    <3>1. exh = T.hand[tch] /\ tch \in T.cells
      BY <1>1, <1>8 DEF Handlers, TypeOK
    <3> QED BY <1>2, <1>7, <1>11, <3>1 DEF Extends, Pending
  <2>2. ASSUME NEW c \in Used' \ {Base}, U.kont[c] # Base, cdr'[U.par[c]] = c
        PROVE  old'[U.kont[c]] = U.hand[U.par[c]]
    <3>1. c \in Used \ {Base} /\ U.par[c] \in Used /\ cdr[T.par[c]] = c
      BY <1>7, <1>11, <2>2
    <3>2. U.kont[c] = T.kont[c] /\ U.par[c] = T.par[c] /\ U.hand[U.par[c]] = T.hand[T.par[c]]
      BY <1>7, <1>8, <1>11, <3>1 DEF Extends
    <3>3. ~ Saving(c)
      BY <1>1 DEF Saving
    <3> QED BY <1>2, <1>8, <2>2, <3>1, <3>2, <3>3 DEF Handlers
  <2> QED BY <2>1, <2>2 DEF Handlers
<1>16. Kept(U)'
  <2>1. ASSUME NEW j \in 1 .. Len(konts') PROVE Chain(konts'[j].frames, konts'[j].tch, U)
    <3>1. konts'[j] \in KontType
      BY <1>7, ElementOfSeq
    <3>2. konts'[j].frames \in Seq(Frames)
      BY <3>1 DEF KontType
    <3> QED BY <1>7, <1>11, <3>2, ChainExtends
  <2> QED BY <2>1 DEF Kept
<1>17. Running(U)'
  BY <1>11 DEF Running, Onward, Top
<1>18. Holds(U)'
  BY <1>11, <1>14, <1>15, <1>16, <1>17 DEF Holds
<1>19. Extends(T, U)
  BY <1>7, <1>11 DEF Extends
<1> QED BY <1>13, <1>18, <1>19

-----------------------------------------------------------------------------
(* Every step keeps the invariant, with a tree that has at most grown.      *)
LEMMA StepHolds ==
  ASSUME NEW T, TypeOK, Holds(T), KontsReturn, [Next]_vars
  PROVE  TypeOK' /\ \E U : Holds(U)' /\ Extends(T, U)
<1>1. Extends(T, T)
  BY KontFacts DEF Extends
<1>2. CASE Throw \/ Raise \/ Finish
  BY <1>1, <1>2, ActingHolds, FinishHolds
<1>3. CASE Wind \/ Capture \/ OnErr
  BY <1>3, WindHolds, CaptureHolds, OnErrHolds
<1>4. CASE RerootDone \/ RerootUp \/ RerootMove \/ Savetexh \/ Restoretexh
  BY <1>1, <1>4, RerootDoneHolds, RerootUpHolds, RerootMoveHolds, ThunkHolds
<1>5. CASE Entered \/ DuringDone \/ Left \/ Landed
  BY <1>1, <1>5, EnteredHolds, DuringDoneHolds, LeftHolds, LandedHolds
<1>6. CASE OnErrDone \/ Unhandled \/ BodyGoesOn \/ Released
  BY <1>1, <1>6, GoesOnHolds, StoppedHolds
<1>7. CASE UNCHANGED vars \/ Ended
  <2>1. UNCHANGED vars
    BY <1>7 DEF Ended
  <2>2. TypeOK'
    BY <2>1 DEF TypeOK, Used, vars
  <2>3. Holds(T)'
    BY <2>1 DEF Holds, Fits, Links, Upright, Upturned, Handlers, Pending, Saving, Called,
                Kept, Running, Onward, Top, Used, vars
  <2> QED BY <1>1, <2>2, <2>3
<1> QED BY <1>2, <1>3, <1>4, <1>5, <1>6, <1>7 DEF Next
-----------------------------------------------------------------------------
(***************************************************************************)
(* The tree that the program sees is the one that it made.                 *)
(***************************************************************************)
LEMMA OuterIsParent ==
  ASSUME NEW T, TypeOK, Family(T), Fits(T), Links(T), NEW c \in Used \ {Base}
  PROVE  Outer(c) = T.par[c] /\ T.par[c] \in Used /\ T.par[c] < c
<1>1. /\ T.par[c] \in Used /\ T.par[c] < c /\ Nil \notin Used /\ cdr[tch] = Nil
      /\ T.cells = Used /\ Used \subseteq Cells
  BY CellNumbers DEF Family, Fits, Links
<1>2. ASSUME NEW d \in Used \ {Base} PROVE T.kont[d] \in {Base} \cup Konts /\ d \in Cells
  <2>1. T.kont[d] \in 0 .. Len(T.land)
    BY <1>1 DEF Family
  <2>2. Len(T.land) = Len(konts) /\ Len(konts) <= MaxKonts /\ MaxKonts \in Nat /\ Len(konts) \in Nat
    BY WindingAssumption DEF Fits, TypeOK
  <2>3. T.kont[d] \in {Base} \cup Konts
    BY <2>1, <2>2 DEF Base, Konts
  <2> QED BY <1>1, <2>3
<1>3. \A d \in Used \ {Base} : Upright(d, T) => Inner(d)
  BY <1>2, PairTypes DEF Upright, Inner
<1>4. \A d \in Used \ {Base} : Upturned(d, T) => ~ Inner(T.par[d])
  BY <1>2, PairTypes DEF Upturned, Inner
<1>5. CASE Upright(c, T)
  <2>1. c # tch /\ cdr[c] = T.par[c]
    BY <1>1, <1>5 DEF Upright
  <2> QED BY <1>1, <1>3, <1>5, <2>1 DEF Outer
<1>6. CASE Upturned(c, T)
  <2>1. cdr[T.par[c]] = c /\ ~ Inner(T.par[c]) /\ cdr[c] # T.par[c]
    BY <1>4, <1>6 DEF Upturned
  <2>2. c = tch \/ ~ Inner(c)
    <3> SUFFICES ASSUME c # tch PROVE ~ Inner(c)
      OBVIOUS
    <3>1. PICK d \in Used : d = cdr[c] /\ T.par[d] = c
      BY <1>1, <2>1 DEF Links, Near
    <3>2. d # Base
      BY <1>1, <3>1 DEF Family
    <3>3. ~ Upright(d, T)
      BY <3>1 DEF Upright
    <3>4. Upturned(d, T)
      BY <3>1, <3>2, <3>3 DEF Links
    <3> QED BY <1>4, <3>1, <3>2, <3>4
  <2>3. ASSUME NEW d \in Used, cdr[d] = c, ~ Inner(d) PROVE d = T.par[c]
    <3>1. d # tch
      BY <1>1, <2>3
    <3>2. T.par[d] = c \/ T.par[c] = d
      BY <2>3, <3>1 DEF Links, Near
    <3>3. CASE T.par[d] = c
      <4>1. d # Base
        BY <1>1, <3>3 DEF Family
      <4>2. Upright(d, T)
        BY <2>3, <3>3, <4>1 DEF Links, Upturned
      <4> QED BY <1>3, <2>3, <4>1, <4>2
    <3> QED BY <3>2, <3>3
  <2>4. (CHOOSE d \in Used : cdr[d] = c /\ ~ Inner(d)) = T.par[c]
    BY <1>1, <2>1, <2>3
  <2> QED BY <1>1, <2>2, <2>4 DEF Outer
<1> QED BY <1>1, <1>5, <1>6 DEF Links

LEMMA ExtentsArePaths ==
  ASSUME NEW T, TypeOK, Family(T), Fits(T), Links(T)
  PROVE  \A c \in Used : ExtentsAt[c] = T.path[c]
<1> DEFINE Is(g) == g = [c \in Used |-> IF c = Base \/ Outer(c) >= c THEN <<>>
                                        ELSE Append(g[Outer(c)], c)]
           p == [c \in Used |-> T.path[c]]
           e == CHOOSE g : Is(g)
<1>1. /\ T.cells = Used /\ Used \subseteq Nat /\ T.path[Base] = <<>> /\ Base \in Used
      /\ \A c \in Used \ {Base} : T.path[c] = Append(T.path[T.par[c]], c)
  BY CellNumbers DEF Family, Fits
<1>2. \A c \in Used \ {Base} : Outer(c) = T.par[c] /\ T.par[c] \in Used /\ ~ (Outer(c) >= c)
  <2> TAKE c \in Used \ {Base}
  <2>1. Outer(c) = T.par[c] /\ T.par[c] \in Used /\ T.par[c] < c
    BY OuterIsParent
  <2> QED BY <1>1, <2>1
<1>3. Is(p)
  <2>1. \A c \in Used : p[c] = IF c = Base \/ Outer(c) >= c THEN <<>> ELSE Append(p[Outer(c)], c)
    BY <1>1, <1>2
  <2> HIDE DEF p
  <2>2. p = [c \in Used |-> p[c]]
    BY DEF p
  <2> QED BY <2>1, <2>2
<1>4. Is(e)
  BY <1>3
<1>5. ExtentsAt = e
  BY DEF ExtentsAt
<1> HIDE DEF e
<1>6. /\ e[Base] = <<>>
      /\ \A c \in Used \ {Base} : e[c] = Append(e[T.par[c]], c)
  BY <1>1, <1>2, <1>4
<1>7. ASSUME NEW x \in Used, e[x] # T.path[x] PROVE FALSE
  <2> DEFINE S == {c \in Used : e[c] # T.path[c]}
  <2>1. S \in SUBSET Nat /\ S # {}
    BY <1>1, <1>7
  <2>2. PICK m \in S : \A j \in S : m <= j
    BY <2>1, LeastNumber
  <2>3. m \in Used \ {Base}
    BY <1>1, <1>6, <2>2
  <2>4. T.par[m] \in Used /\ T.par[m] < m
    BY <2>3, OuterIsParent
  <2>5. T.par[m] \notin S
    BY <1>1, <2>1, <2>2, <2>4
  <2> QED BY <1>1, <1>6, <2>2, <2>3, <2>4, <2>5
<1> QED BY <1>5, <1>7
-----------------------------------------------------------------------------
(***************************************************************************)
(* The frames of code that runs outside of every thunk, counted from the   *)
(* outermost: h[i] is the cell where frame i expects TCH.                  *)
(***************************************************************************)
Steps(h, T) ==
  /\ h \in [0 .. Len(conr) -> T.cells]
  /\ h[0] = Base /\ h[Len(conr)] = tch
  /\ \A i \in 1 .. Len(conr) :
        /\ conr[i].fn \in {"body", "during", "onerr"}
        /\ conr[i].fn # "during" => h[i] = h[i - 1]
        /\ conr[i].fn = "during" =>
              /\ conr[i].cell = h[i - 1] /\ h[i] # Base
              /\ T.par[h[i]] = h[i - 1] /\ T.kont[h[i]] = conr[i].kont

LEMMA SettledSteps ==
  ASSUME NEW T, TypeOK, Holds(T), Settled
  PROVE  \E h : Steps(h, T)
<1>1. Chain(conr, tch, T) /\ \A i \in 1 .. Len(conr) : conr[i].fn \in {"body", "during", "onerr"}
  BY DEF Settled, Holds, Running, TypeOK
<1>2. PICK h \in [0 .. Len(conr) -> T.cells] :
         /\ h[0] = Base /\ h[Len(conr)] = tch
         /\ \A i \in 1 .. Len(conr) : Joint(conr, i, h[i - 1], h[i], T)
  BY <1>1 DEF Chain
<1>3. ASSUME NEW i \in 1 .. Len(conr)
      PROVE  /\ conr[i].fn # "during" => h[i] = h[i - 1]
             /\ conr[i].fn = "during" =>
                   /\ conr[i].cell = h[i - 1] /\ h[i] # Base
                   /\ T.par[h[i]] = h[i - 1] /\ T.kont[h[i]] = conr[i].kont
  BY <1>1, <1>2 DEF Joint, Leads
<1> QED BY <1>1, <1>2, <1>3 DEF Steps

LEMMA DuringsCount ==
  ASSUME NEW i \in 1 .. Len(conr), conr \in Seq(Frames)
  PROVE  /\ Durings(0) = {} /\ Cardinality(Durings(0)) = 0
         /\ Cardinality(Durings(i)) \in Nat /\ Cardinality(Durings(i - 1)) \in Nat
         /\ conr[i].fn = "during" =>
               /\ Durings(i) = Durings(i - 1) \cup {i}
               /\ Cardinality(Durings(i)) = Cardinality(Durings(i - 1)) + 1
         /\ conr[i].fn # "during" => Durings(i) = Durings(i - 1)
<1>1. i \in Nat \ {0}
  OBVIOUS
<1>2. IsFiniteSet(Durings(i)) /\ IsFiniteSet(Durings(i - 1))
  <2>1. IsFiniteSet(1 .. i) /\ IsFiniteSet(1 .. i - 1)
    BY <1>1, FS_Interval
  <2> QED BY <2>1, FS_Subset DEF Durings
<1>3. Durings(0) = {}
  BY DEF Durings
<1>4. conr[i].fn = "during" => Durings(i) = Durings(i - 1) \cup {i} /\ i \notin Durings(i - 1)
  BY <1>1 DEF Durings
<1>5. conr[i].fn # "during" => Durings(i) = Durings(i - 1)
  BY <1>1 DEF Durings
<1>6. conr[i].fn = "during" => Cardinality(Durings(i)) = Cardinality(Durings(i - 1)) + 1
  BY <1>2, <1>4, FS_AddElement
<1> QED BY <1>2, <1>3, <1>4, <1>5, <1>6, FS_EmptySet, FS_CardinalityType

LEMMA PathsCount ==
  ASSUME NEW T, TypeOK, Holds(T), NEW h, Steps(h, T), NEW x \in 0 .. Len(conr)
  PROVE  Len(T.path[h[x]]) = Cardinality(Durings(x))
<1> DEFINE S == {i \in 0 .. Len(conr) : Len(T.path[h[i]]) # Cardinality(Durings(i))}
<1>0. Family(T) /\ conr \in Seq(Frames) /\ Len(conr) \in Nat
  BY DEF Holds, TypeOK
<1> SUFFICES ASSUME S # {} PROVE FALSE
  OBVIOUS
<1>1. PICK m \in S : \A j \in S : m <= j
  <2>1. S \in SUBSET Nat
    BY <1>0
  <2> HIDE DEF S
  <2> QED BY <2>1, LeastNumber
<1>2. m # 0
  <2>1. Len(T.path[h[0]]) = 0
    BY <1>0 DEF Steps, Family
  <2>2. Cardinality(Durings(0)) = 0
    <3>1. Durings(0) = {}
      BY DEF Durings
    <3> QED BY <3>1, FS_EmptySet
  <2> QED BY <1>1, <2>1, <2>2
<1>3. m \in 1 .. Len(conr) /\ m - 1 \in 0 .. Len(conr) /\ m - 1 \notin S
  BY <1>0, <1>1, <1>2
<1>4. Len(T.path[h[m - 1]]) = Cardinality(Durings(m - 1))
  BY <1>3
<1>5. CASE conr[m].fn = "during"
  <2>1. h[m] \in T.cells /\ h[m - 1] \in T.cells /\ T.par[h[m]] = h[m - 1]
    BY <1>3, <1>5 DEF Steps
  <2>2. Len(T.path[h[m]]) = Len(T.path[h[m - 1]]) + 1
    BY <1>0, <2>1, PathOf
  <2> QED BY <1>0, <1>1, <1>3, <1>4, <1>5, <2>2, DuringsCount
<1>6. CASE conr[m].fn # "during"
  BY <1>0, <1>1, <1>3, <1>4, <1>6, DuringsCount DEF Steps
<1> QED BY <1>5, <1>6

LEMMA PathsAreNested ==
  ASSUME NEW T, TypeOK, Holds(T), NEW h, Steps(h, T), NEW x \in 0 .. Len(conr)
  PROVE  IsPrefix(T.path[h[x]], T.path[tch])
<1> DEFINE n == Len(conr)
           S == {k \in 0 .. n : ~ IsPrefix(T.path[h[n - k]], T.path[tch])}
<1>0. Family(T) /\ conr \in Seq(Frames) /\ n \in Nat /\ tch \in T.cells
      /\ T.path[tch] \in Seq(T.cells)
  <2>1. Family(T) /\ conr \in Seq(Frames) /\ tch \in T.cells
    BY DEF Holds, TypeOK, Fits
  <2>2. T.path[tch] \in Seq(T.cells)
    BY <2>1 DEF Family
  <2>3. n \in Nat
    BY <2>1
  <2> QED BY <2>1, <2>2, <2>3
<1> SUFFICES ASSUME S # {} PROVE FALSE
  <2>1. n - x \in 0 .. n /\ n - (n - x) = x
    BY <1>0
  <2> QED BY <2>1
<1>1. PICK m \in S : \A j \in S : m <= j
  <2>1. S \in SUBSET Nat
    BY <1>0
  <2> HIDE DEF S
  <2> QED BY <2>1, LeastNumber
<1>2. m # 0
  <2>1. h[n - 0] = tch
    BY <1>0 DEF Steps
  <2> QED BY <1>0, <1>1, <2>1, PrefixOfItself
<1> DEFINE i == n - m + 1
<1>3. /\ i \in 1 .. n /\ i - 1 \in 0 .. n /\ i = n - (m - 1) /\ i - 1 = n - m
      /\ m - 1 \in 0 .. n /\ m - 1 \notin S
  <2>1. m \in 1 .. n
    BY <1>0, <1>1, <1>2
  <2>2. m - 1 \notin S
    <3>1. m - 1 \in S => m <= m - 1
      BY <1>1
    <3> HIDE DEF S
    <3> QED BY <1>0, <2>1, <3>1
  <2> HIDE DEF S
  <2> QED BY <1>0, <2>1, <2>2
<1>4. IsPrefix(T.path[h[i]], T.path[tch]) /\ ~ IsPrefix(T.path[h[i - 1]], T.path[tch])
  BY <1>1, <1>3
<1> HIDE DEF i
<1>5. CASE conr[i].fn = "during"
  <2>1. h[i] \in T.cells /\ h[i - 1] \in T.cells /\ T.par[h[i]] = h[i - 1]
    <3> HIDE DEF S
    <3> QED BY <1>3, <1>5 DEF Steps
  <2>2. T.path[h[i]] = Append(T.path[h[i - 1]], h[i]) /\ T.path[h[i - 1]] \in Seq(T.cells)
    BY <1>0, <2>1, PathOf
  <2> QED BY <1>0, <1>4, <2>1, <2>2, PrefixLosesItsLast DEF IsStrictPrefix
<1>6. CASE conr[i].fn # "during"
  BY <1>3, <1>4, <1>6 DEF Steps
<1> QED BY <1>5, <1>6

LEMMA ExtentsMatch ==
  ASSUME IInv
  PROVE  ExtentsMatchStack
<1> SUFFICES ASSUME Settled
             PROVE  LET here == ExtentsAt[tch] IN
                    /\ Len(here) = Cardinality(Durings(Len(conr)))
                    /\ \A i \in Durings(Len(conr)) :
                          ExtentsAt[conr[i].cell] = SubSeq(here, 1, Cardinality(Durings(i)) - 1)
  BY DEF ExtentsMatchStack
<1>1. PICK T : Holds(T)
  BY DEF IInv
<1>2. TypeOK /\ Family(T) /\ T.cells = Used /\ tch \in Used /\ conr \in Seq(Frames)
      /\ Len(conr) \in Nat
  BY <1>1 DEF IInv, Holds, Fits, TypeOK
<1>3. \A c \in Used : ExtentsAt[c] = T.path[c]
  BY <1>1, <1>2, ExtentsArePaths DEF Holds
<1>4. PICK h : Steps(h, T)
  BY <1>1, <1>2, SettledSteps
<1>5. Len(T.path[tch]) = Cardinality(Durings(Len(conr)))
  <2>1. Len(conr) \in 0 .. Len(conr) /\ h[Len(conr)] = tch
    BY <1>2, <1>4 DEF Steps
  <2> QED BY <1>1, <1>2, <1>4, <2>1, PathsCount
<1>6. ASSUME NEW i \in Durings(Len(conr))
      PROVE  ExtentsAt[conr[i].cell] = SubSeq(T.path[tch], 1, Cardinality(Durings(i)) - 1)
  <2>1. i \in 1 .. Len(conr) /\ conr[i].fn = "during" /\ i - 1 \in 0 .. Len(conr)
    BY <1>2 DEF Durings
  <2>2. conr[i].cell = h[i - 1] /\ h[i - 1] \in T.cells
    BY <1>4, <2>1 DEF Steps
  <2> DEFINE s == T.path[h[i - 1]]
  <2>3. s \in Seq(T.cells) /\ Len(s) = Cardinality(Durings(i - 1))
    BY <1>1, <1>2, <1>4, <2>1, <2>2, PathsCount DEF Family
  <2>4. Len(s) = Cardinality(Durings(i)) - 1
    BY <1>2, <2>1, <2>3, DuringsCount
  <2>5. IsPrefix(s, T.path[tch])
    BY <1>1, <1>2, <1>4, <2>1, PathsAreNested
  <2>6. ExtentsAt[conr[i].cell] = s
    BY <1>2, <1>3, <2>2
  <2> HIDE DEF s
  <2>7. SubSeq(s, 1, Len(s)) = s
    BY <2>3, SubSeqFull
  <2> QED BY <2>4, <2>5, <2>6, <2>7 DEF IsPrefix
<1> QED BY <1>2, <1>3, <1>5, <1>6

LEMMA HandlerMatches ==
  ASSUME IInv
  PROVE  HandlerMatchesStack
<1> SUFFICES ASSUME Settled
             PROVE  exh = IF Guards = {} THEN Base ELSE conr[Innermost].kont
  BY DEF HandlerMatchesStack
<1>1. PICK T : Holds(T)
  BY DEF IInv
<1>2. TypeOK /\ Family(T) /\ T.cells = Used /\ tch \in Used /\ conr \in Seq(Frames)
      /\ Len(conr) \in Nat
  BY <1>1 DEF IInv, Holds, Fits, TypeOK
<1>3. exh = T.hand[tch]
  <2>1. ~ Pending
    BY DEF Settled, Pending, Dead
  <2> QED BY <1>1, <2>1 DEF Holds, Handlers
<1>4. PICK h : Steps(h, T)
  BY <1>1, <1>2, SettledSteps
<1> DEFINE G(i) == {j \in Durings(i) : conr[j].kont # Base}
           Good(i) == \/ G(i) = {} /\ T.hand[h[i]] = Base
                      \/ \E j \in G(i) : (\A l \in G(i) : l <= j) /\ T.hand[h[i]] = conr[j].kont
           S == {i \in 0 .. Len(conr) : ~ Good(i)}
<1>5. S = {}
  <2> SUFFICES ASSUME S # {} PROVE FALSE
    OBVIOUS
  <2>1. PICK m \in S : \A j \in S : m <= j
    <3>1. S \in SUBSET Nat
      BY <1>2
    <3> HIDE DEF S
    <3> QED BY <3>1, LeastNumber
  <2>2. Good(0)
    <3>1. Durings(0) = {}
      BY DEF Durings
    <3> QED BY <1>2, <1>4, <3>1 DEF Steps, Family
  <2>3. m \in 1 .. Len(conr) /\ m - 1 \in 0 .. Len(conr) /\ m - 1 \notin S
    BY <1>2, <2>1, <2>2
  <2>4. Good(m - 1) /\ ~ Good(m)
    BY <2>1, <2>3
  <2>5. conr[m].fn # "during" => Durings(m) = Durings(m - 1) /\ h[m] = h[m - 1]
    BY <1>2, <1>4, <2>3, DuringsCount DEF Steps
  <2>6. CASE conr[m].fn # "during"
    BY <2>4, <2>5, <2>6
  <2>7. CASE conr[m].fn = "during"
    <3>1. /\ Durings(m) = Durings(m - 1) \cup {m} /\ \A l \in Durings(m - 1) : l <= m
      BY <1>2, <2>3, <2>7, DuringsCount DEF Durings
    <3>2. /\ h[m] \in T.cells \ {Base} /\ T.par[h[m]] = h[m - 1] /\ T.kont[h[m]] = conr[m].kont
      BY <1>4, <2>3, <2>7 DEF Steps
    <3>3. T.hand[h[m]] = IF conr[m].kont # Base THEN conr[m].kont ELSE T.hand[h[m - 1]]
      BY <1>2, <3>2 DEF Family
    <3>4. CASE conr[m].kont # Base
      <4>1. m \in G(m) /\ \A l \in G(m) : l <= m
        BY <2>3, <3>1, <3>4
      <4> QED BY <2>4, <3>3, <3>4, <4>1
    <3>5. CASE conr[m].kont = Base
      <4>1. G(m) = G(m - 1)
        BY <3>1, <3>5
      <4> QED BY <2>4, <3>3, <3>5, <4>1
    <3> QED BY <3>4, <3>5
  <2> QED BY <2>6, <2>7
<1>6. Good(Len(conr)) /\ G(Len(conr)) = Guards /\ h[Len(conr)] = tch /\ Guards \subseteq Nat
  BY <1>2, <1>4, <1>5 DEF Guards, Steps, Durings
<1> HIDE DEF G
<1>7. ASSUME NEW j \in Guards, \A l \in Guards : l <= j PROVE Innermost = j
  <2>1. \A i \in Guards : (\A l \in Guards : l <= i) => i = j
    BY <1>6, <1>7
  <2> QED BY <1>7, <2>1 DEF Innermost
<1> QED BY <1>3, <1>6, <1>7

LEMMA BrokenUnwinds ==
  ASSUME IInv
  PROVE  BrokenIsUnwound
<1>1. PICK T : Holds(T)
  BY DEF IInv
<1>2. TypeOK /\ Family(T) /\ Fits(T) /\ Links(T) /\ Running(T)
  BY <1>1 DEF IInv, Holds
<1>3. Base \in Used /\ T.path[Base] = <<>>
  BY <1>2, CellNumbers DEF Family, Fits
<1>4. ExtentsAt[Base] = <<>>
  BY <1>2, <1>3, ExtentsArePaths
<1> QED BY <1>2, <1>4 DEF BrokenIsUnwound, Running
-----------------------------------------------------------------------------
(***************************************************************************)
(* What holds of every run in which each captured continuation has a frame *)
(* to return to.                                                           *)
(***************************************************************************)
LEMMA IInvAlways == Spec /\ []KontsReturn => []IInv
<1>1. Init => IInv
  BY InitHolds
<1>2. IInv /\ KontsReturn /\ [Next]_vars => IInv'
  BY StepHolds DEF IInv
<1> QED BY <1>1, <1>2, PTL DEF Spec

(* Every variable keeps its type, and each cell has a link to another but   *)
(* for TCH (__arc_reroot against the throws and errors of its thunks).      *)
THEOREM TypeCorrect == Spec /\ []KontsReturn => []TypeOK
<1>1. IInv => TypeOK
  BY DEF IInv
<1> QED BY <1>1, IInvAlways, PTL

(* Code runs inside of exactly the extents that its continuation will leave *)
(* (arc_dynamic_wind, contwrapper and __arc_reroot).                        *)
THEOREM ExtentsAlwaysMatch == Spec /\ []KontsReturn => []ExtentsMatchStack
<1>1. IInv => ExtentsMatchStack
  BY ExtentsMatch
<1> QED BY <1>1, IInvAlways, PTL

(* An error goes to the innermost on-err around the code that runs,         *)
(* however control came there (savetexh, restoretexh and arc_err).          *)
THEOREM HandlerAlwaysMatches == Spec /\ []KontsReturn => []HandlerMatchesStack
<1>1. IInv => HandlerMatchesStack
  BY HandlerMatches
<1> QED BY <1>1, IInvAlways, PTL

(* An error that nobody handles breaks the thread only after every extent   *)
(* has been left and every handler taken off (arc_err).                     *)
THEOREM BrokenIsAlwaysUnwound == Spec /\ []KontsReturn => []BrokenIsUnwound
<1>1. IInv => BrokenIsUnwound
  BY BrokenUnwinds
<1> QED BY <1>1, IInvAlways, PTL

(* A program that captures no continuation in tail position only has        *)
(* continuations with frames (arc_callcc takes the continuation register).  *)
THEOREM KontsAlwaysReturn ==
  ASSUME ~ TailCaptures
  PROVE  Spec => []KontsReturn
<1>1. Init => KontsReturn
  BY DEF Init, KontsReturn
<1>2. IInv /\ KontsReturn /\ [Next]_vars => KontsReturn'
  <2> SUFFICES ASSUME IInv, KontsReturn, [Next]_vars PROVE KontsReturn'
    OBVIOUS
  <2>1. konts \in Seq(KontType) /\ conr \in Seq(Frames)
    BY DEF IInv, TypeOK, KontType
  <2>2. CASE Capture
    <3>1. konts' = Append(konts, [frames |-> Append(conr, Body), tch |-> tch])
      <4>1. TailCaptures = FALSE
        BY WindingAssumption, Zenon
      <4> QED BY <2>2, <4>1 DEF Capture
    <3>2. Append(conr, Body) # <<>>
      BY <2>1
    <3> QED BY <2>1, <3>1, <3>2 DEF KontsReturn
  <2>3. CASE OnErr
    <3>1. PICK g : konts' = Append(konts, [frames |-> conr \o <<Body, g>>, tch |-> tch])
      BY <2>3 DEF OnErr
    <3>2. conr \o <<Body, g>> # <<>>
      BY <2>1
    <3> QED BY <2>1, <3>1, <3>2 DEF KontsReturn
  <2>4. CASE konts' = konts
    BY <2>4 DEF KontsReturn
  <2> QED BY <2>2, <2>3, <2>4 DEF Next, Wind, Throw, Raise, Finish, RerootDone, RerootUp, RerootMove,
             Savetexh, Restoretexh, Entered, DuringDone, Left, Landed, OnErrDone, Unhandled,
             BodyGoesOn, Released, Ended, vars
<1>3. Init => IInv
  BY InitHolds
<1>4. IInv /\ KontsReturn /\ [Next]_vars => IInv'
  BY StepHolds DEF IInv
<1> QED BY <1>1, <1>2, <1>3, <1>4, PTL DEF Spec
-----------------------------------------------------------------------------
(***************************************************************************)
(* __arc_reroot does what dynamic-wind promises: Winding implements        *)
(* Extents.  The moves that follow one another belong to the transfer that *)
(* the outermost of their frames began.                                    *)
(***************************************************************************)
Target(fr, c, t) ==
  LET n == CHOOSE i \in 0 .. Len(fr) : Transferring(fr, i, Len(fr))
  IN IF n < Len(fr) THEN fr[n + 1].cell ELSE IF c.op = "reroot" THEN c.to ELSE t

LEMMA TransferIsTarget ==
  /\ Transfer = Target(conr, ctl, tch)
  /\ Transfer' = Target(conr', ctl', tch')
<1>1. Transfer = Target(conr, ctl, tch)
  BY DEF Transfer, Target, Transferring
<1>2. Transfer' = Target(conr', ctl', tch')
  BY DEF Transfer, Target, Transferring
<1> QED BY <1>1, <1>2

LEMMA BottomExists ==
  ASSUME NEW fr \in Seq(Frames)
  PROVE  \E n \in 0 .. Len(fr) : Transferring(fr, n, Len(fr))
<1> DEFINE S == {k \in 0 .. Len(fr) : \A j \in k + 1 .. Len(fr) : fr[j].fn = "reroot"}
<1>0. Len(fr) \in Nat
  OBVIOUS
<1>1. PICK m \in S : \A j \in S : m <= j
  <2>1. S \in SUBSET Nat /\ Len(fr) \in S
    BY <1>0
  <2> HIDE DEF S
  <2> QED BY <2>1, LeastNumber
<1>2. m = 0 \/ fr[m].fn # "reroot"
  <2> SUFFICES ASSUME m # 0, fr[m].fn = "reroot" PROVE FALSE
    OBVIOUS
  <2>1. m \in 1 .. Len(fr)
    BY <1>0, <1>1
  <2>2. ASSUME NEW j \in (m - 1) + 1 .. Len(fr) PROVE fr[j].fn = "reroot"
    <3>1. j = m \/ j \in m + 1 .. Len(fr)
      BY <1>0, <2>1
    <3> QED BY <1>1, <3>1
  <2>3. m - 1 \in S
    BY <1>0, <2>1, <2>2
  <2>4. m <= m - 1
    BY <1>1, <2>3
  <2> QED BY <2>1, <2>4
<1> QED BY <1>1, <1>2 DEF Transferring

LEMMA TargetIs ==
  ASSUME NEW fr \in Seq(Frames), NEW c, NEW t, NEW n \in 0 .. Len(fr),
         Transferring(fr, n, Len(fr))
  PROVE  Target(fr, c, t) = IF n < Len(fr) THEN fr[n + 1].cell
                            ELSE IF c.op = "reroot" THEN c.to ELSE t
<1> DEFINE m == Len(fr)
<1>0. m \in Nat
  OBVIOUS
<1>1. ASSUME NEW i \in 0 .. m, Transferring(fr, i, m) PROVE i = n
  <2>1. CASE i < n
    <3>1. n \in i + 1 .. m
      BY <1>0, <2>1
    <3> QED BY <1>0, <1>1, <2>1, <3>1 DEF Transferring
  <2>2. CASE n < i
    <3>1. i \in n + 1 .. m
      BY <1>0, <2>2
    <3> QED BY <1>0, <1>1, <2>2, <3>1 DEF Transferring
  <2> QED BY <1>0, <2>1, <2>2
<1>2. (CHOOSE i \in 0 .. m : Transferring(fr, i, m)) = n
  BY <1>1
<1> QED BY <1>2 DEF Target

LEMMA TargetIsCell ==
  ASSUME NEW T, TypeOK, Holds(T)
  PROVE  Transfer \in T.cells
<1>1. conr \in Seq(Frames) /\ tch \in T.cells
  BY DEF TypeOK, Holds, Fits
<1>2. PICK last : Chain(conr, last, T) /\ last = IF ctl.op = "reroot" THEN ctl.to ELSE tch
  BY DEF Holds, Running
<1>3. last \in T.cells
  BY <1>1, <1>2, ChainEnds
<1>4. PICK n \in 0 .. Len(conr) : Transferring(conr, n, Len(conr))
  BY <1>1, BottomExists
<1>5. Transfer = IF n < Len(conr) THEN conr[n + 1].cell ELSE last
  BY <1>1, <1>2, <1>4, TargetIs, TransferIsTarget
<1>6. CASE n < Len(conr)
  <2>1. n + 1 \in 1 .. Len(conr) /\ n + 1 \in n + 1 .. Len(conr)
    BY <1>1, <1>6
  <2>2. conr[n + 1].fn = "reroot"
    BY <1>4, <2>1 DEF Transferring
  <2> QED BY <1>1, <1>2, <1>5, <1>6, <2>1, <2>2, TransferCells
<1> QED BY <1>3, <1>5, <1>6

(* The books that Winding keeps show the extents of the program: Sees holds *)
(* of every state, and so of the next one.                                  *)
Sees == \A T : TypeOK /\ Holds(T) =>
           /\ \A c \in Used : ExtentsAt[c] = T.path[c] /\ T.path[c] \in Seq(Cells)
           /\ Transfer \in Used /\ tch \in Used

LEMMA AlwaysSees == Sees /\ Sees'
<1>1. Sees
  <2> SUFFICES ASSUME NEW T, TypeOK, Holds(T)
               PROVE  /\ \A c \in Used : ExtentsAt[c] = T.path[c] /\ T.path[c] \in Seq(Cells)
                      /\ Transfer \in Used /\ tch \in Used
    BY DEF Sees
  <2>1. Family(T) /\ Fits(T) /\ Links(T) /\ T.cells = Used /\ T.cells \subseteq Cells
    BY CellNumbers DEF Holds, Fits
  <2>2. \A c \in Used : T.path[c] \in Seq(Cells)
    BY <2>1, SeqMonotonic DEF Family
  <2> QED BY <2>1, <2>2, ExtentsArePaths, TargetIsCell DEF TypeOK
<1>2. Sees'
  BY <1>1, PTL
<1> QED BY <1>1, <1>2

(* The tree is what it was, or the extents that TCH stands for have become  *)
(* those of the next cell.                                                  *)
LEMMA OtherStepAims ==
  ASSUME NEW T, TypeOK, Holds(T), KontsReturn, [Next]_vars, ~ RerootMove
  PROVE  Abs!Aim
<1>1. PICK U : TypeOK' /\ Holds(U)' /\ Extends(T, U)
  BY StepHolds
<1>2. tch' = tch /\ thunk' = thunk
  BY DEF Next, Wind, WindFrom, Capture, Throw, OnErr, Raise, Finish, RerootDone, RerootUp,
         Savetexh, Restoretexh, Entered, DuringDone, Left, Landed, OnErrDone, Unhandled,
         BodyGoesOn, Released, Ended, vars, tree
<1>3. /\ ExtentsAt[tch] = T.path[tch] /\ tch \in Used /\ T.cells = Used
  BY AlwaysSees DEF Sees, Holds, Fits
<1>4. /\ (ExtentsAt[tch])' = U.path[tch'] /\ (ExtentsAt[Transfer])' \in Seq(Cells)
  BY <1>1, AlwaysSees DEF Sees
<1>5. (ExtentsAt[tch])' = ExtentsAt[tch]
  BY <1>1, <1>2, <1>3, <1>4 DEF Extends
<1> QED BY <1>2, <1>4, <1>5 DEF Abs!Aim

LEMMA MoveKeepsTarget ==
  ASSUME NEW T, TypeOK, Holds(T), RerootMove
  PROVE  /\ Transfer' = Transfer
         /\ Nearer(Top.cell, tch, Transfer, T)
<1> DEFINE m == Len(conr)
<1>1. /\ conr \in Seq(Frames) /\ conr # <<>> /\ Top = conr[m] /\ Top.fn = "reroot"
      /\ Directed(conr, m, Top.cell, tch, T) /\ Front(conr) \in Seq(Frames)
  BY MoveFacts
<1>2. /\ m \in Nat \ {0} /\ Len(Front(conr)) = m - 1
      /\ \A j \in 1 .. m - 1 : Front(conr)[j] = conr[j]
  BY <1>1, FrontProperties
<1>3. conr' = Front(conr) /\ tch' = Top.cell /\ ctl'.op = "run"
  BY DEF RerootMove, Run
<1>4. PICK n \in 0 .. m : Transferring(conr, n, m)
  BY <1>1, BottomExists
<1>5. n \in 0 .. m - 1
  BY <1>1, <1>2, <1>4 DEF Transferring
<1>6. Transfer = conr[n + 1].cell
  <2>1. n < m
    BY <1>2, <1>5
  <2> QED BY <1>1, <1>4, <2>1, TargetIs, TransferIsTarget
<1>7. Nearer(Top.cell, tch, Transfer, T)
  BY <1>1, <1>4, <1>5, <1>6 DEF Directed
<1>8. Transferring(conr', n, m - 1)
  BY <1>2, <1>3, <1>4, <1>5 DEF Transferring
<1>9. Transfer' = IF n < m - 1 THEN conr'[n + 1].cell ELSE tch'
  <2>1. conr' \in Seq(Frames) /\ Len(conr') = m - 1 /\ ctl'.op # "reroot"
    BY <1>1, <1>2, <1>3
  <2> HIDE DEF m
  <2> QED BY <1>5, <1>8, <2>1, TargetIs, TransferIsTarget
<1>10. Transfer' = Transfer
  <2>1. CASE n < m - 1
    BY <1>2, <1>3, <1>5, <1>6, <1>9, <2>1
  <2>2. CASE ~ (n < m - 1)
    <3>1. n + 1 = m
      BY <1>2, <1>5, <2>2
    <3> QED BY <1>1, <1>3, <1>6, <1>9, <2>2, <3>1
  <2> QED BY <2>1, <2>2
<1> QED BY <1>7, <1>10

(* Extents takes its operators on sequences from the module that Winding    *)
(* takes its own from.                                                      *)
LEMMA SameOperators ==
  \A p, q : /\ Abs!IsPrefix(p, q) <=> IsPrefix(p, q)
            /\ Abs!IsStrictPrefix(p, q) <=> IsStrictPrefix(p, q)
            /\ Abs!Front(p) = Front(p) /\ Abs!Last(p) = Last(p)
BY DEF IsPrefix, IsStrictPrefix, Front, Last, Abs!IsPrefix, Abs!IsStrictPrefix, Abs!Front, Abs!Last

LEMMA MoveLeavesOrEnters ==
  ASSUME NEW T, TypeOK, Holds(T), RerootMove
  PROVE  (Abs!Leave \/ Abs!Enter) /\ (ExtentsAt[Transfer])' = ExtentsAt[Transfer]
<1>0. PICK a, t : a = Top.cell /\ t = Transfer
  OBVIOUS
<1>1. /\ a \in Used /\ Near(a, tch, T) /\ tch' = a /\ thunk' = Before(a)
      /\ Family(T) /\ Fits(T) /\ Links(T) /\ T.cells = Used
  BY <1>0, MoveFacts DEF RerootMove, Holds, Fits
<1>2. Nearer(a, tch, t, T) /\ Transfer' = t
  BY <1>0, MoveKeepsTarget
<1>3. TypeOK' /\ Holds(T)'
  BY RerootMoveHolds
<1>4. /\ t \in Used /\ tch \in Used
      /\ ExtentsAt[tch] = T.path[tch] /\ ExtentsAt[Transfer] = T.path[t]
  BY <1>0, AlwaysSees DEF Sees
<1>5. (ExtentsAt[tch])' = T.path[a] /\ (ExtentsAt[Transfer])' = T.path[t]
  BY <1>1, <1>2, <1>3, AlwaysSees DEF Sees
<1>6. \A c \in Used : T.kont[c] \in {Base} \cup Konts /\ c \in Cells
  <2>1. \A c \in Used : T.kont[c] \in 0 .. Len(konts)
    BY <1>1, KontFacts DEF Family
  <2>2. Len(konts) <= MaxKonts /\ MaxKonts \in Nat /\ Len(konts) \in Nat
    BY KontFacts
  <2>3. 0 .. Len(konts) \subseteq {Base} \cup Konts
    BY <2>2 DEF Base, Konts
  <2> QED BY <1>1, <2>1, <2>3 DEF TypeOK
<1>7. CASE T.par[tch] = a
  <2>1. /\ T.path[tch] = Append(T.path[a], tch) /\ T.path[a] \in Seq(T.cells)
    BY <1>1, <1>4, <1>7, PathOf
  <2>2. /\ T.path[tch] # <<>> /\ Front(T.path[tch]) = T.path[a] /\ Last(T.path[tch]) = tch
    BY <1>1, <1>4, <2>1, AppendFront
  <2>3. ~ IsPrefix(T.path[tch], T.path[t])
    BY <1>2, <1>7 DEF Nearer
  <2>4. thunk'.wind = tch /\ thunk'.side = "after"
    BY <1>1, <1>4, <1>6, <1>7, EdgeAtRoot, PairTypes
  <2>5. Abs!Leave
    BY <1>4, <1>5, <2>2, <2>3, <2>4, SameOperators DEF Abs!Leave
  <2> QED BY <1>4, <1>5, <2>5
<1>8. CASE T.par[a] = tch
  <2>1. /\ T.path[a] = Append(T.path[tch], a) /\ T.path[tch] \in Seq(T.cells)
        /\ T.path[t] \in Seq(T.cells)
    <3>1. T.path[t] \in Seq(T.cells)
      BY <1>1, <1>4 DEF Family
    <3> QED BY <1>1, <1>4, <1>8, <3>1, PathOf
  <2>2. IsPrefix(Append(T.path[tch], a), T.path[t])
    BY <1>2, <1>8, <2>1 DEF Nearer
  <2>3. IsStrictPrefix(T.path[tch], T.path[t]) /\ T.path[t][Len(T.path[tch]) + 1] = a
    BY <1>1, <2>1, <2>2, PrefixLosesItsLast
  <2>4. Last(T.path[a]) = a
    BY <1>1, <2>1, AppendFront
  <2>5. thunk'.wind = a /\ thunk'.side = "before"
    BY <1>1, <1>6, <1>8, EdgeAtRoot, PairTypes
  <2>6. Abs!Enter
    BY <1>4, <1>5, <2>1, <2>3, <2>4, <2>5, SameOperators DEF Abs!Enter
  <2> QED BY <1>4, <1>5, <2>6
<1> QED BY <1>1, <1>7, <1>8 DEF Near

LEMMA InitIsAbstract == Init => Abs!Init
<1> SUFFICES ASSUME Init PROVE Abs!Init
  OBVIOUS
<1>1. PICK T : TypeOK /\ Holds(T)
  BY InitHolds DEF IInv
<1>2. ExtentsAt[Base] = T.path[Base] /\ T.path[Base] = <<>>
  BY <1>1, AlwaysSees, CellNumbers DEF Sees, Holds, Family, Fits
<1>3. Transfer = Base
  <2>1. conr \in Seq(Frames) /\ Len(conr) = 0 /\ 0 \in 0 .. Len(conr)
    BY DEF Init
  <2>2. Transferring(conr, 0, Len(conr)) /\ ~ (0 < Len(conr))
    BY <2>1 DEF Transferring
  <2>3. Target(conr, ctl, tch) = IF ctl.op = "reroot" THEN ctl.to ELSE tch
    BY <2>1, <2>2, TargetIs
  <2> QED BY <2>3, TransferIsTarget DEF Init, Run
<1>4. thunk.wind = 0 /\ thunk.side = "none" /\ tch = Base
  BY DEF Init, Dead, Base
<1> QED BY <1>2, <1>3, <1>4 DEF Abs!Init, Abs!Nothing

(* Whatever the order of throws, errors and returns, in thunks or out of    *)
(* them, __arc_reroot runs the thunks of the extents between here and       *)
(* there, in order, and no other.                                           *)
THEOREM WindingImplementsExtents == Spec /\ []KontsReturn => ImplementsExtents
<1>1. Init => Abs!Init
  BY InitIsAbstract
<1>2. IInv /\ KontsReturn /\ [Next]_vars => [Abs!Next]_Abs!avars
  <2> SUFFICES ASSUME NEW T, TypeOK, Holds(T), KontsReturn, [Next]_vars PROVE Abs!Next
    BY DEF IInv
  <2>1. CASE RerootMove
    BY <2>1, MoveLeavesOrEnters DEF Abs!Next
  <2>2. CASE ~ RerootMove
    BY <2>2, OtherStepAims DEF Abs!Next
  <2> QED BY <2>1, <2>2
<1> QED BY <1>1, <1>2, IInvAlways, PTL DEF Spec, ImplementsExtents, Abs!Spec

(* What the run of TLC checks, for any number of winds and continuations,   *)
(* as long as no ccc is the last thing its caller does (arc_callcc).        *)
THEOREM WindingCorrect ==
  ASSUME ~ TailCaptures
  PROVE  Spec => /\ [](TypeOK /\ ExtentsMatchStack /\ HandlerMatchesStack /\ BrokenIsUnwound)
                 /\ ImplementsExtents
BY KontsAlwaysReturn, TypeCorrect, ExtentsAlwaysMatch, HandlerAlwaysMatches,
   BrokenIsAlwaysUnwound, WindingImplementsExtents, PTL
=============================================================================
