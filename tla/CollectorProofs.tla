-------------------------- MODULE CollectorProofs --------------------------
(***************************************************************************)
(* Theorems about Collector, for any number of blocks, any size of the     *)
(* stack, any depth of the recursion and any budgets of the slices.        *)
(***************************************************************************)
EXTENDS CollectorSnapshot, SequencesExt, SequenceTheorems,
        FiniteSetTheorems, WellFoundedInduction, TLAPS

-----------------------------------------------------------------------------
(* Facts about numbers and sequences *)

(* A set of natural numbers has a least element. *)
LEMMA LeastNumber ==
  ASSUME NEW S \in SUBSET Nat, S # {}
  PROVE  \E m \in S : \A k \in S : m <= k
<1> DEFINE Segments == {S \cap (0 .. m) : m \in S}
<1>1. IsWellFoundedOn(StrictSubsetOrdering(Nat), FiniteSubsetsOf(Nat))
  BY FS_StrictSubsetOrderingWellFounded
<1>2. Segments \subseteq FiniteSubsetsOf(Nat)
  <2>1. \A m \in S : IsFiniteSet(S \cap (0 .. m))
    <3> TAKE m \in S
    <3>1. IsFiniteSet(0 .. m)
      BY FS_Interval
    <3> QED BY <3>1, FS_Subset
  <2> QED BY <2>1 DEF FiniteSubsetsOf
<1>3. Segments # {}
  OBVIOUS
<1> HIDE DEF Segments
<1>4. PICK x \in Segments : \A y \in Segments : ~ (<<y, x>> \in StrictSubsetOrdering(Nat))
  BY <1>1, <1>2, <1>3, WFMin
<1> USE DEF Segments
<1>5. PICK m \in S : x = S \cap (0 .. m)
  BY <1>4
<1>6. \A k \in S : m <= k
  <2> SUFFICES ASSUME NEW k \in S, k < m PROVE FALSE
    OBVIOUS
  <2> DEFINE y == S \cap (0 .. k)
  <2>1. y \in Segments /\ y \subseteq x /\ m \in x /\ m \notin y /\ x \subseteq Nat
    BY <1>5
  <2>2. <<y, x>> \in StrictSubsetOrdering(Nat)
    BY <2>1 DEF StrictSubsetOrdering
  <2> QED BY <1>4, <2>1, <2>2
<1> QED BY <1>6

(* What holds at 0, and at i if it holds at i - 1, holds up to n.          *)
LEMMA UpTo ==
  ASSUME NEW n \in Nat, NEW P \in SUBSET (0 .. n), 0 \in P,
         \A i \in 1 .. n : i - 1 \in P => i \in P
  PROVE  P = 0 .. n
<1> DEFINE Left == (0 .. n) \ P
<1> SUFFICES ASSUME Left # {} PROVE FALSE
  OBVIOUS
<1>1. Left \in SUBSET Nat
  OBVIOUS
<1>2. \A i \in 0 .. n : i \in P <=> i \notin Left
  OBVIOUS
<1>3. \A i \in Left : i \in 0 .. n
  OBVIOUS
<1> HIDE DEF Left
<1>4. PICK m \in Left : \A k \in Left : m <= k
  BY <1>1, LeastNumber
<1>5. m # 0
  BY <1>2, <1>3
<1>6. m - 1 \in 0 .. n /\ m \in 1 .. n /\ ~(m <= m - 1)
  BY <1>3, <1>5
<1> QED BY <1>2, <1>4, <1>6

(* Functions by primitive recursion: F[i] makes the value at i from the    *)
(* one before.  (A set of values is needed for the existence, nothing      *)
(* else; the counterexample with the smallest length has none.)            *)
ByRecursion(g, F, a, n) == g[0] = a /\ \A i \in 1 .. n : g[i] = F[i][g[i - 1]]

LEMMA RecursionExists ==
  ASSUME NEW V, NEW a \in V, NEW n \in Nat, NEW F, \A i \in 1 .. n : F[i] \in [V -> V]
  PROVE  \E g \in [0 .. n -> V] : ByRecursion(g, F, a, n)
<1> DEFINE Failing == {m \in 0 .. n : ~ \E g \in [0 .. m -> V] : ByRecursion(g, F, a, m)}
<1>1. Failing = {}
  <2> SUFFICES ASSUME Failing # {} PROVE FALSE
    OBVIOUS
  <2>1. Failing \in SUBSET Nat
    OBVIOUS
  <2>2. \A m \in Failing : m \in 0 .. n /\ ~ \E g \in [0 .. m -> V] : ByRecursion(g, F, a, m)
    OBVIOUS
  <2>3. \A m \in 0 .. n : m \notin Failing => \E g \in [0 .. m -> V] : ByRecursion(g, F, a, m)
    OBVIOUS
  <2> HIDE DEF Failing
  <2>4. PICK m \in Failing : \A k \in Failing : m <= k
    BY <2>1, LeastNumber
  <2>5. m # 0
    <3> DEFINE g == [i \in 0 .. 0 |-> a]
    <3>1. g \in [0 .. 0 -> V] /\ g[0] = a
      OBVIOUS
    <3>2. ByRecursion(g, F, a, 0)
      BY <3>1 DEF ByRecursion
    <3> QED BY <2>2, <3>1, <3>2
  <2> DEFINE l == m - 1
  <2>6. l \in 0 .. n /\ l < m /\ m \in 1 .. n /\ l + 1 = m
    BY <2>2, <2>4, <2>5
  <2> HIDE DEF l
  <2>7. l \notin Failing
    BY <2>4, <2>6
  <2>8. PICK g \in [0 .. l -> V] : ByRecursion(g, F, a, l)
    BY <2>3, <2>6, <2>7
  <2> DEFINE h == [i \in 0 .. m |-> IF i = m THEN F[m][g[l]] ELSE g[i]]
  <2>9. F[m][g[l]] \in V
    BY <2>6, <2>8
  <2>10. h \in [0 .. m -> V]
    BY <2>6, <2>9
  <2>11. ByRecursion(h, F, a, m)
    <3>1. h[0] = a
      BY <2>6, <2>8 DEF ByRecursion
    <3>2. ASSUME NEW i \in 1 .. m PROVE h[i] = F[i][h[i - 1]]
      <4>1. CASE i = m
        <5>1. h[i] = F[m][g[l]] /\ h[i - 1] = g[l]
          BY <4>1, <2>6
        <5> QED BY <5>1, <4>1
      <4>2. CASE i # m
        <5>1. i \in 1 .. l /\ h[i] = g[i] /\ h[i - 1] = g[i - 1]
          BY <4>2, <2>6
        <5>2. g[i] = F[i][g[i - 1]]
          BY <5>1, <2>8 DEF ByRecursion
        <5> QED BY <5>1, <5>2
      <4> QED BY <4>1, <4>2
    <3> QED BY <3>1, <3>2 DEF ByRecursion
  <2> HIDE DEF h
  <2> QED BY <2>2, <2>4, <2>10, <2>11
<1>2. n \in 0 .. n
  OBVIOUS
<1> QED BY <1>1, <1>2

(* There is only one. *)
LEMMA RecursionIsUnique ==
  ASSUME NEW F, NEW a, NEW n \in Nat, NEW g, NEW h,
         ByRecursion(g, F, a, n), ByRecursion(h, F, a, n)
  PROVE  \A i \in 0 .. n : g[i] = h[i]
<1> DEFINE Failing == {m \in 0 .. n : g[m] # h[m]}
<1>1. Failing = {}
  <2> SUFFICES ASSUME Failing # {} PROVE FALSE
    OBVIOUS
  <2>1. Failing \in SUBSET Nat
    OBVIOUS
  <2>2. /\ \A m \in Failing : m \in 0 .. n /\ g[m] # h[m]
        /\ \A m \in 0 .. n : m \notin Failing => g[m] = h[m]
    OBVIOUS
  <2> HIDE DEF Failing
  <2>4. PICK m \in Failing : \A k \in Failing : m <= k
    BY <2>1, LeastNumber
  <2>5. m # 0
    BY <2>2 DEF ByRecursion
  <2>6. m - 1 \in 0 .. n /\ m - 1 < m /\ m \in 1 .. n
    BY <2>2, <2>5
  <2>7. g[m - 1] = h[m - 1]
    <3>1. m - 1 \notin Failing
      BY <2>4, <2>6
    <3> QED BY <2>2, <2>6, <3>1
  <2>8. g[m] = F[m][g[m - 1]] /\ h[m] = F[m][h[m - 1]]
    BY <2>6 DEF ByRecursion
  <2> QED BY <2>2, <2>7, <2>8
<1> QED BY <1>1

(* __arc_enqueue: one new member; still no repetition if it was not there. *)
LEMMA AppendMembers ==
  ASSUME NEW S, NEW q \in Seq(S), NEW x \in S
  PROVE  /\ Append(q, x) \in Seq(S)
         /\ ToSet(Append(q, x)) = ToSet(q) \cup {x}
         /\ IsInjective(q) /\ x \notin ToSet(q) => IsInjective(Append(q, x))
<1>1. /\ Append(q, x) \in Seq(S)
      /\ Len(Append(q, x)) = Len(q) + 1
      /\ \A i \in 1 .. Len(q) : Append(q, x)[i] = q[i]
      /\ Append(q, x)[Len(q) + 1] = x
  BY AppendProperties
<1>2. DOMAIN Append(q, x) = 1 .. Len(q) + 1 /\ DOMAIN q = 1 .. Len(q) /\ Len(q) \in Nat
  BY <1>1, LenProperties
<1>3. ToSet(Append(q, x)) = ToSet(q) \cup {x}
  BY <1>1, <1>2 DEF ToSet
<1>4. IsInjective(q) /\ x \notin ToSet(q) => IsInjective(Append(q, x))
  BY <1>1, <1>2 DEF ToSet, IsInjective
<1> QED BY <1>1, <1>3, <1>4

(* What is left of a sequence without its i-th element, place by place.    *)
LEMMA RemoveAtElements ==
  ASSUME NEW S, NEW q \in Seq(S), NEW i \in 1 .. Len(q)
  PROVE  /\ RemoveAt(q, i) \in Seq(S) /\ Len(RemoveAt(q, i)) = Len(q) - 1
         /\ \A j \in 1 .. Len(q) - 1 : RemoveAt(q, i)[j] = IF j < i THEN q[j] ELSE q[j + 1]
<1> DEFINE l == SubSeq(q, 1, i - 1)
           r == SubSeq(q, i + 1, Len(q))
           u == RemoveAt(q, i)
<1>1. Len(q) \in Nat /\ DOMAIN q = 1 .. Len(q)
  BY LenProperties
<1>2. /\ l \in Seq(S) /\ Len(l) = i - 1
      /\ \A j \in 1 .. i - 1 : l[j] = q[j]
  BY <1>1, SubSeqProperties
<1>3. /\ r \in Seq(S) /\ Len(r) = Len(q) - i
      /\ \A j \in 1 .. Len(q) - i : r[j] = q[i + j]
  <2>1. \A j \in 1 .. Len(q) : q[j] \in S
    BY <1>1, ElementOfSeq
  <2> DEFINE m == i + 1
             n == Len(q)
  <2>2. m \in Int /\ n \in Int /\ m = i + 1 /\ n = Len(q) /\ i >= 1 /\ i <= n
    BY <1>1
  <2> HIDE DEF m, n
  <2>3. \A j \in m .. n : q[j] \in S
    BY <2>1, <2>2
  <2>4. /\ SubSeq(q, m, n) \in Seq(S)
        /\ Len(SubSeq(q, m, n)) = IF m <= n THEN n - m + 1 ELSE 0
        /\ \A k \in 1 .. n - m + 1 : SubSeq(q, m, n)[k] = q[m + k - 1]
    BY <2>2, <2>3, SubSeqProperties
  <2>5. \A j \in 1 .. Len(q) - i : j \in 1 .. n - m + 1 /\ m + j - 1 = i + j
    BY <1>1, <2>2
  <2>6. Len(SubSeq(q, m, n)) = Len(q) - i
    <3>1. CASE m <= n
      <4>1. n - m + 1 = Len(q) - i
        BY <1>1, <2>2
      <4> QED BY <2>4, <3>1, <4>1, Zenon
    <3>2. CASE ~(m <= n)
      <4>1. i \in Int /\ Len(q) \in Int /\ ~(i + 1 <= Len(q)) /\ i <= Len(q)
        BY <1>1, <2>2, <3>2
      <4>2. 0 = Len(q) - i
        BY <4>1
      <4> QED BY <2>4, <3>2, <4>2, Zenon
    <3> QED BY <3>1, <3>2
  <2>7. r = SubSeq(q, m, n)
    BY DEF m, n
  <2>8. \A j \in 1 .. Len(q) - i : r[j] = q[i + j]
    BY <2>4, <2>5, <2>7
  <2> QED BY <2>4, <2>6, <2>7, <2>8
<1> HIDE DEF l, r
<1>4. /\ u \in Seq(S) /\ Len(u) = Len(q) - 1
      /\ \A j \in 1 .. Len(q) - 1 : u[j] = IF j < i THEN q[j] ELSE q[j + 1]
  <2>1. u = l \o r
    BY DEF RemoveAt, l, r
  <2> HIDE DEF u
  <2>2. /\ u \in Seq(S) /\ Len(u) = Len(l) + Len(r)
        /\ \A j \in 1 .. Len(l) + Len(r) :
             u[j] = IF j <= Len(l) THEN l[j] ELSE r[j - Len(l)]
    BY <1>2, <1>3, <2>1, ConcatProperties
  <2>3. ASSUME NEW j \in 1 .. Len(q) - 1, j < i PROVE u[j] = q[j]
    <3>1. j \in 1 .. i - 1 /\ j <= Len(l) /\ j \in 1 .. Len(l) + Len(r)
      BY <1>1, <1>2, <1>3, <2>3
    <3> QED BY <1>2, <2>2, <3>1
  <2>4. ASSUME NEW j \in 1 .. Len(q) - 1, ~(j < i) PROVE u[j] = q[j + 1]
    <3> DEFINE k == j - (i - 1)
    <3>1. k \in 1 .. Len(q) - i /\ i + k = j + 1 /\ ~(j <= i - 1) /\ j \in 1 .. Len(l) + Len(r)
      BY <1>1, <1>2, <1>3, <2>4
    <3> HIDE DEF k
    <3>2. u[j] = r[k]
      BY <1>2, <2>2, <3>1 DEF k
    <3> QED BY <1>3, <3>1, <3>2
  <2> QED BY <1>1, <1>2, <1>3, <2>2, <2>3, <2>4
<1> QED BY <1>4 DEF u

(* The unlink in arc_thread_dispatch: the visited thread, and no other,    *)
(* leaves a run queue without repetitions.                                 *)
LEMMA RemoveAtMembers ==
  ASSUME NEW S, NEW q \in Seq(S), NEW i \in 1 .. Len(q)
  PROVE  /\ RemoveAt(q, i) \in Seq(S)
         /\ Len(RemoveAt(q, i)) = Len(q) - 1
         /\ ToSet(RemoveAt(q, i)) \subseteq ToSet(q)
         /\ IsInjective(q) => /\ IsInjective(RemoveAt(q, i))
                              /\ ToSet(RemoveAt(q, i)) = ToSet(q) \ {q[i]}
<1> DEFINE u == RemoveAt(q, i)
<1>1. Len(q) \in Nat /\ DOMAIN q = 1 .. Len(q)
  BY LenProperties
<1>4. /\ u \in Seq(S) /\ Len(u) = Len(q) - 1
      /\ \A j \in 1 .. Len(q) - 1 : u[j] = IF j < i THEN q[j] ELSE q[j + 1]
  BY RemoveAtElements
<1>5. DOMAIN u = 1 .. Len(q) - 1
  BY <1>4, LenProperties
<1> HIDE DEF u
<1>6. ASSUME NEW j \in DOMAIN u
      PROVE  \E k \in DOMAIN q : u[j] = q[k] /\ k # i /\ k = IF j < i THEN j ELSE j + 1
  BY <1>1, <1>4, <1>5
<1>7. ToSet(u) \subseteq ToSet(q)
  BY <1>6 DEF ToSet
<1>8. ASSUME IsInjective(q) PROVE q[i] \notin ToSet(u)
  BY <1>1, <1>6, <1>8 DEF ToSet, IsInjective
<1>9. ASSUME IsInjective(q) PROVE IsInjective(u)
  <2> SUFFICES ASSUME NEW a \in DOMAIN u, NEW b \in DOMAIN u, u[a] = u[b]
               PROVE  a = b
    BY DEF IsInjective
  <2>1. PICK k \in DOMAIN q : u[a] = q[k] /\ k = IF a < i THEN a ELSE a + 1
    BY <1>6
  <2>2. PICK m \in DOMAIN q : u[b] = q[m] /\ m = IF b < i THEN b ELSE b + 1
    BY <1>6
  <2>3. k = m
    BY <1>9, <2>1, <2>2 DEF IsInjective
  <2> QED BY <2>1, <2>2, <2>3, <1>1, <1>5
<1>10. ToSet(q) \subseteq ToSet(u) \cup {q[i]}
  <2>1. ASSUME NEW j \in 1 .. Len(q), j < i PROVE q[j] \in ToSet(u)
    <3>1. j \in DOMAIN u /\ u[j] = q[j]
      BY <2>1, <1>1, <1>4, <1>5
    <3> QED BY <3>1 DEF ToSet
  <2>2. ASSUME NEW j \in 1 .. Len(q), j > i PROVE q[j] \in ToSet(u)
    <3> DEFINE k == j - 1
    <3>1. k \in 1 .. Len(q) - 1 /\ k + 1 = j /\ ~(k < i)
      BY <2>2, <1>1
    <3> HIDE DEF k
    <3>2. u[k] = q[j]
      BY <3>1, <1>4
    <3> QED BY <3>1, <3>2, <1>5 DEF ToSet
  <2>3. ASSUME NEW j \in 1 .. Len(q) PROVE j = i \/ j < i \/ j > i
    BY <1>1
  <2> QED BY <2>1, <2>2, <2>3, <1>1 DEF ToSet
<1> QED BY <1>4, <1>7, <1>8, <1>9, <1>10 DEF u

LEMMA FrontProperties ==
  ASSUME NEW S, NEW s \in Seq(S), s # <<>>
  PROVE  /\ Len(s) \in Nat \ {0}
         /\ Front(s) \in Seq(S) /\ Len(Front(s)) = Len(s) - 1
         /\ Last(s) \in S /\ Last(s) = s[Len(s)]
         /\ \A j \in 1 .. Len(s) - 1 : Front(s)[j] = s[j]
<1>1. Len(s) \in Nat \ {0}
  OBVIOUS
<1>2. Last(s) \in S /\ Last(s) = s[Len(s)]
  BY <1>1 DEF Last
<1>3. Front(s) = SubSeq(s, 1, Len(s) - 1) /\ Len(s) - 1 <= Len(s) /\ Len(s) - 1 \in Nat
  BY <1>1 DEF Front
<1>4. \A j \in 1 .. Len(s) - 1 : s[j] \in S
  BY <1>1
<1>5. Front(s) \in Seq(S) /\ Len(Front(s)) = Len(s) - 1
      /\ \A j \in 1 .. Len(s) - 1 : Front(s)[j] = s[j]
  <2> DEFINE m == Len(s) - 1
  <2>1. m \in 0 .. Len(s) /\ \A i \in 1 .. m : s[i] \in S
    BY <1>1
  <2>2. SubSeq(s, 1, m) \in Seq(S) /\ Len(SubSeq(s, 1, m)) = m
        /\ \A j \in 1 .. m : SubSeq(s, 1, m)[j] = s[j]
    <3> HIDE DEF m
    <3> QED BY <2>1
  <2> QED BY <1>3, <2>2
<1> QED BY <1>1, <1>2, <1>5

-----------------------------------------------------------------------------
(* The roots and Nil are three things, and no conses. *)
LEMMA Names == /\ Global # Thread /\ Global # Nil /\ Thread # Nil
               /\ Global \notin Obj /\ Thread \notin Obj /\ Nil \notin Obj
               /\ Nil \notin Block
<1>1. \A a, b : IsFiniteSet({a, b}) /\ Cardinality({a, b}) <= 2
  <2> TAKE a, b
  <2>1. IsFiniteSet({a}) /\ Cardinality({a}) = 1
    BY FS_Singleton
  <2>2. IsFiniteSet({a} \cup {b})
        /\ Cardinality({a} \cup {b}) = IF b \in {a} THEN Cardinality({a}) ELSE Cardinality({a}) + 1
    BY <2>1, FS_AddElement
  <2>3. {a} \cup {b} = {a, b}
    OBVIOUS
  <2> QED BY <2>1, <2>2, <2>3
<1>2. \A a, b : {Global, Thread, Nil} # {a, b}
  <2> SUFFICES ASSUME NEW a, NEW b, {Global, Thread, Nil} = {a, b} PROVE FALSE
    OBVIOUS
  <2>1. Cardinality({a, b}) = 3
    BY Zenon, CollectorAssumption
  <2>2. 3 <= 2
    BY Zenon, <1>1, <2>1
  <2> QED BY <2>2
<1>3. Global # Thread
  <2> SUFFICES ASSUME Global = Thread PROVE FALSE
    OBVIOUS
  <2>1. {Global, Thread, Nil} = {Thread, Nil}
    OBVIOUS
  <2> QED BY <1>2, <2>1
<1>4. Global # Nil
  <2> SUFFICES ASSUME Global = Nil PROVE FALSE
    OBVIOUS
  <2>1. {Global, Thread, Nil} = {Thread, Nil}
    OBVIOUS
  <2> QED BY <1>2, <2>1
<1>5. Thread # Nil
  <2> SUFFICES ASSUME Thread = Nil PROVE FALSE
    OBVIOUS
  <2>1. {Global, Thread, Nil} = {Global, Nil}
    OBVIOUS
  <2> QED BY <1>2, <2>1
<1> QED BY <1>3, <1>4, <1>5, CollectorAssumption DEF Block

-----------------------------------------------------------------------------
(***************************************************************************)
(* Marking.                                                                *)
(***************************************************************************)

(* What a block refers to; of the thread, its value register.             *)
Child(b) == IF b = Thread THEN valr ELSE field[b]

Dark == {"mutator", "propagator"}
Noticed(w, b) == b = Nil \/ w.colour[b] \in Dark

(* A marking darkens colours, and what it makes black has its child dark.  *)
Rises(c, d) == d \in {c, "mutator"} \/ (d = "propagator" /\ c # "mutator")
Goes(w, x) ==
  /\ \A b \in Block : Rises(w.colour[b], x.colour[b])
  /\ w.nprop => x.nprop
  /\ \A b \in Block : w.colour[b] # "mutator" /\ x.colour[b] = "mutator" => Noticed(x, Child(b))

Reaches(w, b, x) ==
  /\ Goes(w, x)
  /\ Noticed(x, b)
  /\ b # Nil /\ w.colour[b] # "mutator" => x.nprop

LEMMA WorkParts ==
  ASSUME NEW w \in Works
  PROVE  /\ w.colour \in [Block -> Colour] /\ w.nprop \in BOOLEAN /\ w.visit \in 0 .. MaxQuantum
BY DEF Works

LEMMA WorksAre ==
  ASSUME NEW c \in [Block -> Colour], NEW n \in BOOLEAN, NEW v \in 0 .. MaxQuantum
  PROVE  [colour |-> c, nprop |-> n, visit |-> v] \in Works
BY DEF Works

LEMMA GoesOn ==
  ASSUME NEW w \in Works, NEW x \in Works, NEW y \in Works,
         \A b \in Block : Child(b) \in Block \cup {Nil},
         Goes(w, x), Goes(x, y)
  PROVE  /\ Goes(w, y)
         /\ \A b \in Block \cup {Nil} : Noticed(x, b) => Noticed(y, b)
<1>1. \A b \in Block : /\ w.colour[b] \in Colour /\ x.colour[b] \in Colour /\ y.colour[b] \in Colour
                       /\ Rises(w.colour[b], x.colour[b]) /\ Rises(x.colour[b], y.colour[b])
  BY WorkParts DEF Goes
<1>2. \A b \in Block : Rises(w.colour[b], y.colour[b])
  BY <1>1 DEF Rises
<1>3. \A b \in Block \cup {Nil} : Noticed(x, b) => Noticed(y, b)
  BY <1>1 DEF Rises, Noticed, Dark
<1>4. w.nprop => y.nprop
  BY DEF Goes
<1>5. ASSUME NEW b \in Block, w.colour[b] # "mutator", y.colour[b] = "mutator"
      PROVE  Noticed(y, Child(b))
  <2>1. CASE x.colour[b] = "mutator"
    BY <1>3, <1>5, <2>1 DEF Goes
  <2>2. CASE x.colour[b] # "mutator"
    BY <1>5, <2>2 DEF Goes
  <2> QED BY <2>1, <2>2
<1> QED BY <1>2, <1>3, <1>4, <1>5 DEF Goes

(* SETMARK. *)
LEMMA SetMarkReaches ==
  ASSUME NEW w \in Works, NEW b \in Block
  PROVE  /\ SetMark(w, b) \in Works
         /\ SetMark(w, b).visit = w.visit
         /\ SetMark(w, b).colour = Shade(w.colour, b)
         /\ Reaches(w, b, SetMark(w, b))
<1> DEFINE x == SetMark(w, b)
           p == w.nprop \/ w.colour[b] # "mutator"
<1>1. w.colour \in [Block -> Colour] /\ w.nprop \in BOOLEAN /\ w.visit \in 0 .. MaxQuantum
  BY WorkParts
<1>2. Shade(w.colour, b) \in [Block -> Colour]
  BY <1>1 DEF Shade, Colour
<1>3. x = [colour |-> Shade(w.colour, b), nprop |-> p, visit |-> w.visit]
  BY DEF SetMark
<1>4. p \in BOOLEAN
  OBVIOUS
<1>5. x.colour = Shade(w.colour, b) /\ x.nprop = p /\ x.visit = w.visit
  BY <1>3
<1>6. x \in Works
  <2> HIDE DEF x, p
  <2> QED BY <1>1, <1>2, <1>3, <1>4, WorksAre, Zenon
<1> HIDE DEF x
<1>7. \A a \in Block : /\ Rises(w.colour[a], x.colour[a])
                       /\ x.colour[a] = "mutator" => w.colour[a] = "mutator"
  BY <1>1, <1>5 DEF Shade, Rises
<1>8. x.colour[b] \in Dark
  BY <1>1, <1>5 DEF Shade, Dark
<1>9. w.nprop \/ w.colour[b] # "mutator" => x.nprop
  BY <1>5
<1>10. Goes(w, x)
  BY <1>7, <1>9 DEF Goes
<1>11. Reaches(w, b, x)
  BY <1>8, <1>9, <1>10 DEF Reaches, Noticed
<1> QED BY <1>5, <1>6, <1>11 DEF x
(* What mark does within the budget, before it comes to the children.      *)
LEMMA VisitedReaches ==
  ASSUME NEW w \in Works, NEW b \in Block, w.visit # 0
  PROVE  /\ Visited(w, b) \in Works
         /\ Visited(w, b).colour = Shade(w.colour, b)
         /\ Reaches(w, b, Visited(w, b))
<1> DEFINE s == SetMark(w, b)
           x == Visited(w, b)
<1>1. /\ s \in Works /\ s.visit = w.visit /\ Reaches(w, b, s)
      /\ s.colour = Shade(w.colour, b)
  BY SetMarkReaches
<1>2. x = [s EXCEPT !.visit = @ - 1]
  BY DEF Visited
<1> HIDE DEF s, x
<1>3. s.visit \in 0 .. MaxQuantum /\ s.visit # 0 /\ MaxQuantum \in Nat
  BY <1>1, WorkParts, CollectorAssumption
<1>4. x \in Works /\ x.colour = s.colour /\ x.nprop = s.nprop
  BY <1>1, <1>2, <1>3 DEF Works
<1>5. Reaches(w, b, x)
  BY <1>1, <1>4, Zenon DEF Reaches, Goes, Noticed
<1> QED BY <1>1, <1>4, <1>5 DEF x

(* A block may be made black if its child is noticed in the end.           *)
LEMMA RecursingReaches ==
  ASSUME NEW w \in Works, NEW b \in Block, w.visit # 0
  PROVE  /\ Recursing(w, b) \in Works
         /\ \A x \in Works :
              Goes(Recursing(w, b), x) /\ Noticed(x, Child(b)) => Reaches(w, b, x)
<1> DEFINE v == Visited(w, b)
           r == Recursing(w, b)
<1>1. v \in Works /\ v.colour = Shade(w.colour, b) /\ Reaches(w, b, v)
  BY VisitedReaches
<1>2. r = [v EXCEPT !.colour[b] = "mutator"]
  BY DEF Recursing
<1> HIDE DEF v, r
<1>3. v.colour \in [Block -> Colour] /\ w.colour \in [Block -> Colour]
  BY <1>1, WorkParts
<1>4. /\ r \in Works /\ r.nprop = v.nprop
      /\ r.colour = [v.colour EXCEPT ![b] = "mutator"]
  BY <1>1, <1>2 DEF Works, Colour
<1>5. /\ r.colour[b] = "mutator"
      /\ \A a \in Block \ {b} : r.colour[a] = w.colour[a]
  BY <1>1, <1>3, <1>4 DEF Shade
<1>6. ASSUME NEW x \in Works, Goes(r, x), Noticed(x, Child(b))
      PROVE  Reaches(w, b, x)
  <2>0. \A a \in Block : Rises(r.colour[a], x.colour[a])
    BY <1>6 DEF Goes
  <2>1. x.colour[b] = "mutator"
    BY <1>5, <2>0 DEF Rises
  <2>2. \A a \in Block : Rises(w.colour[a], x.colour[a])
    BY <1>5, <2>0, <2>1 DEF Rises
  <2>3. (w.nprop => v.nprop) /\ (w.colour[b] # "mutator" => v.nprop)
    <3>1. b # Nil
      BY Names
    <3> QED BY <1>1, <3>1 DEF Reaches, Goes
  <2>4. (w.nprop => x.nprop) /\ (w.colour[b] # "mutator" => x.nprop)
    BY <1>4, <1>6, <2>3 DEF Goes
  <2>5. \A a \in Block : w.colour[a] # "mutator" /\ x.colour[a] = "mutator" => Noticed(x, Child(a))
    <3> SUFFICES ASSUME NEW a \in Block, w.colour[a] # "mutator", x.colour[a] = "mutator"
                 PROVE  Noticed(x, Child(a))
      OBVIOUS
    <3>1. CASE a = b
      BY <1>6, <3>1
    <3>2. CASE a # b
      BY <1>5, <1>6, <3>2 DEF Goes
    <3> QED BY <3>1, <3>2
  <2>6. Noticed(x, b)
    BY <2>1 DEF Noticed, Dark
  <2> QED BY <2>2, <2>4, <2>5, <2>6 DEF Reaches, Goes
<1> QED BY <1>4, <1>6 DEF r

-----------------------------------------------------------------------------
(* A marker of blocks, and what it must do for each.                       *)
Marker == [Block \cup {Nil} -> [Works -> Works]]
Marks(m) == \A b \in Block \cup {Nil} : \A w \in Works : Reaches(w, b, m[b][w])

(* One child after the other. *)
LEMMA InTurnReaches ==
  ASSUME NEW m \in Marker, Marks(m),
         \A b \in Block : Child(b) \in Block \cup {Nil},
         NEW children \in Seq(Block \cup {Nil}), NEW w \in Works
  PROVE  /\ InTurn(m, children, w) \in Works
         /\ Goes(w, InTurn(m, children, w))
         /\ \A i \in 1 .. Len(children) : Noticed(InTurn(m, children, w), children[i])
<1> DEFINE n == Len(children)
           F == [i \in 1 .. n |-> m[children[i]]]
           Is(f) == f = [i \in 0 .. n |-> IF i = 0 THEN w ELSE m[children[i]][f[i - 1]]]
           after == CHOOSE f : Is(f)
<1>1. n \in Nat /\ \A i \in 1 .. n : children[i] \in Block \cup {Nil}
  BY LenProperties, ElementOfSeq
<1>2. InTurn(m, children, w) = after[n]
  BY DEF InTurn
<1> HIDE DEF n
<1>3. \A i \in 1 .. n : F[i] = m[children[i]] /\ F[i] \in [Works -> Works]
  BY <1>1 DEF Marker
<1> HIDE DEF F
<1>4. PICK g \in [0 .. n -> Works] : ByRecursion(g, F, w, n)
  BY <1>1, <1>3, RecursionExists
<1>5. Is(g)
  BY <1>3, <1>4, <1>1 DEF ByRecursion
<1>6. Is(after)
  BY <1>5
<1> HIDE DEF after
<1>7. after[0] = w /\ \A i \in 1 .. n : after[i] = m[children[i]][after[i - 1]]
  BY <1>1, <1>6
<1>8. ByRecursion(after, F, w, n)
  BY <1>3, <1>7 DEF ByRecursion
<1>9. \A i \in 0 .. n : after[i] \in Works
  BY <1>1, <1>4, <1>8, RecursionIsUnique
<1> DEFINE P == {i \in 0 .. n : /\ Goes(w, after[i])
                                /\ \A j \in 1 .. i : Noticed(after[i], children[j])}
<1>10. P = 0 .. n
  <2>1. 0 \in P
    <3>1. Goes(w, w)
      BY DEF Goes, Rises
    <3> QED BY <1>1, <1>7, <3>1
  <2>2. ASSUME NEW i \in 1 .. n, i - 1 \in P PROVE i \in P
    <3> DEFINE x == after[i - 1]
               y == after[i]
    <3>0. i - 1 \in 0 .. n /\ i \in 0 .. n
      BY <1>1
    <3>1. x \in Works /\ y \in Works /\ y = m[children[i]][x]
      BY <1>7, <1>9, <3>0
    <3>2. Goes(w, x) /\ \A j \in 1 .. i - 1 : Noticed(x, children[j])
      BY <2>2
    <3>3. Goes(x, y) /\ Noticed(y, children[i])
      <4>1. Reaches(x, children[i], m[children[i]][x])
        BY <1>1, <3>1 DEF Marks
      <4> QED BY <3>1, <4>1 DEF Reaches
    <3> HIDE DEF x, y
    <3>4. Goes(w, y) /\ \A b \in Block \cup {Nil} : Noticed(x, b) => Noticed(y, b)
      BY <3>1, <3>2, <3>3, GoesOn
    <3>5. \A j \in 1 .. i : Noticed(y, children[j])
      <4> SUFFICES ASSUME NEW j \in 1 .. i PROVE Noticed(y, children[j])
        OBVIOUS
      <4>1. CASE j = i
        BY <3>3, <4>1
      <4>2. CASE j # i
        <5>1. j \in 1 .. i - 1 /\ children[j] \in Block \cup {Nil}
          BY <1>1, <4>2
        <5> QED BY <3>2, <3>4, <5>1
      <4> QED BY <4>1, <4>2
    <3> QED BY <3>0, <3>4, <3>5 DEF y
  <2>3. P \in SUBSET (0 .. n)
    OBVIOUS
  <2> HIDE DEF P
  <2> QED BY <1>1, <2>1, <2>2, <2>3, UpTo
<1>11. n \in P
  BY <1>1, <1>10
<1>12. n \in 0 .. n
  BY <1>1
<1> QED BY <1>2, <1>9, <1>11, <1>12 DEF n

(* The children a block has, and the one that counts.                      *)
LEMMA ChildrenAre ==
  ASSUME TypeOK, NEW b \in Block
  PROVE  /\ Children(b) \in Seq(Block \cup {Nil})
         /\ Children(b) # <<>> /\ Children(b)[1] = Child(b)
         /\ Child(b) \in Ref /\ Child(b) \in Block \cup {Nil}
<1> DEFINE R == Block \cup {Nil}
<1>1. Ref \subseteq R /\ valr \in Ref /\ stk \in Seq(Ref)
  BY DEF TypeOK, Ref, Block
<1>2. CASE b = Thread
  <2> DEFINE s == SubSeq(stk, 2, Len(stk))
  <2>1. s \in Seq(Ref)
    <3>1. \A i \in 1 .. Len(stk) : stk[i] \in Ref
      BY <1>1, ElementOfSeq
    <3>2. Len(stk) \in Nat
      BY <1>1, LenProperties
    <3>3. \A i \in 2 .. Len(stk) : stk[i] \in Ref
      BY <3>1, <3>2
    <3> QED BY <3>2, <3>3, SubSeqProperties
  <2> HIDE DEF s
  <2>2. Reverse(s) \in Seq(Ref)
    <3>1. Len(s) \in Nat /\ \A i \in 1 .. Len(s) : s[i] \in Ref
      BY <2>1, LenProperties, ElementOfSeq
    <3>2. \A i \in 1 .. Len(s) : s[(Len(s) - i) + 1] \in Ref
      BY <3>1
    <3>3. Reverse(s) = [i \in 1 .. Len(s) |-> s[(Len(s) - i) + 1]]
      BY DEF Reverse
    <3>4. [i \in 1 .. Len(s) |-> s[(Len(s) - i) + 1]] \in Seq(Ref)
      BY <3>1, <3>2, IsASeq
    <3> QED BY <3>3, <3>4
  <2>3. Children(b) = <<valr>> \o Reverse(s)
    BY <1>2 DEF Children, s
  <2> DEFINE t == Reverse(s)
  <2> HIDE DEF t
  <2>4. <<valr>> \in Seq(Ref) /\ Len(<<valr>>) = 1 /\ <<valr>>[1] = valr
    BY <1>1
  <2>5. Children(b) \in Seq(Ref) /\ Children(b) # <<>> /\ Children(b)[1] = valr
    <3>1. t \in Seq(Ref) /\ Children(b) = <<valr>> \o t
      BY <2>2, <2>3 DEF t
    <3>2. Len(t) \in Nat
      BY <3>1, LenProperties
    <3>3. /\ <<valr>> \o t \in Seq(Ref) /\ Len(<<valr>> \o t) = 1 + Len(t)
          /\ \A i \in 1 .. 1 + Len(t) :
               (<<valr>> \o t)[i] = IF i <= 1 THEN <<valr>>[i] ELSE t[i - 1]
      BY <2>4, <3>1, ConcatProperties
    <3>4. Len(<<>>) = 0
      OBVIOUS
    <3> QED BY <2>4, <3>1, <3>2, <3>3, <3>4
  <2>6. Children(b) \in Seq(R)
    <3>1. \A r \in Seq(Ref) : r \in Seq(R)
      <4> HIDE DEF R
      <4> QED BY <1>1
    <3> QED BY <2>5, <3>1
  <2> QED BY <1>1, <1>2, <2>5, <2>6 DEF Child
<1>3. CASE b # Thread
  <2>1. field[b] \in Ref
    BY <1>3 DEF TypeOK, Block
  <2>2. Children(b) = <<field[b]>>
    BY <1>3 DEF Children
  <2> QED BY <1>1, <1>3, <2>1, <2>2 DEF Child
<1> QED BY <1>2, <1>3

(* mark, whatever the depth that is left.                                  *)
LEMMA MarkingReaches ==
  ASSUME TypeOK
  PROVE  \A n \in 0 .. MaxDepth : Marking[n] \in Marker /\ Marks(Marking[n])
<1> DEFINE Last0 == [b \in Block \cup {Nil} |-> [w \in Works |->
                       IF b = Nil THEN w
                       ELSE IF w.visit = 0 THEN SetMark(w, b)
                       ELSE Visited(w, b)]]
           Over(m) == [b \in Block \cup {Nil} |-> [w \in Works |->
                         IF b = Nil THEN w
                         ELSE IF w.visit = 0 THEN SetMark(w, b)
                         ELSE InTurn(m, Children(b), Recursing(w, b))]]
           Sound == {m \in Marker : Marks(m)}
           F == [i \in 1 .. MaxDepth |-> [m \in Sound |-> Over(m)]]
<1>1. MaxDepth \in Nat
  BY CollectorAssumption
<1>2. \A b \in Block : Child(b) \in Block \cup {Nil}
  BY ChildrenAre
<1>3. \A w \in Works : Reaches(w, Nil, w)
  BY DEF Reaches, Goes, Rises, Noticed
<1>4. Last0 \in Sound
  <2>1. \A b \in Block : \A w \in Works :
          /\ SetMark(w, b) \in Works /\ Reaches(w, b, SetMark(w, b))
          /\ w.visit # 0 => Visited(w, b) \in Works /\ Reaches(w, b, Visited(w, b))
    BY SetMarkReaches, VisitedReaches
  <2>2. Last0 \in Marker
    BY <2>1 DEF Marker
  <2>3. Marks(Last0)
    <3> SUFFICES ASSUME NEW b \in Block \cup {Nil}, NEW w \in Works
                 PROVE  Reaches(w, b, Last0[b][w])
      BY DEF Marks
    <3>1. Last0[b][w] = IF b = Nil THEN w
                        ELSE IF w.visit = 0 THEN SetMark(w, b) ELSE Visited(w, b)
      OBVIOUS
    <3> HIDE DEF Last0
    <3>2. CASE b = Nil
      BY <1>3, <3>1, <3>2
    <3>3. CASE b # Nil
      BY <2>1, <3>1, <3>3
    <3> QED BY <3>2, <3>3
  <2> QED BY <2>2, <2>3
<1>5. ASSUME NEW m \in Sound PROVE Over(m) \in Sound
  <2>0. m \in Marker /\ Marks(m)
    OBVIOUS
  <2>1. ASSUME NEW b \in Block, NEW w \in Works
        PROVE  LET x == IF w.visit = 0 THEN SetMark(w, b)
                        ELSE InTurn(m, Children(b), Recursing(w, b))
               IN x \in Works /\ Reaches(w, b, x)
    <3>1. CASE w.visit = 0
      BY <3>1, SetMarkReaches
    <3>2. CASE w.visit # 0
      <4> DEFINE x == InTurn(m, Children(b), Recursing(w, b))
      <4>1. /\ Children(b) \in Seq(Block \cup {Nil})
            /\ Children(b) # <<>> /\ Children(b)[1] = Child(b)
        BY ChildrenAre
      <4>2. 1 \in 1 .. Len(Children(b))
        <5>1. Len(Children(b)) \in Nat /\ Len(Children(b)) # 0
          BY <4>1, LenProperties, EmptySeq
        <5> QED BY <5>1
      <4>3. Recursing(w, b) \in Works
        BY <3>2, RecursingReaches
      <4>4. /\ x \in Works /\ Goes(Recursing(w, b), x)
            /\ \A i \in 1 .. Len(Children(b)) : Noticed(x, Children(b)[i])
        BY <1>2, <2>0, <4>1, <4>3, InTurnReaches
      <4>5. Noticed(x, Child(b))
        BY <4>1, <4>2, <4>4
      <4> HIDE DEF x
      <4>6. Reaches(w, b, x)
        BY <3>2, <4>4, <4>5, RecursingReaches
      <4> QED BY <3>2, <4>4, <4>6 DEF x
    <3> QED BY <3>1, <3>2
  <2>2. Over(m) \in Marker
    BY <2>1 DEF Marker
  <2>3. Marks(Over(m))
    <3> SUFFICES ASSUME NEW b \in Block \cup {Nil}, NEW w \in Works
                 PROVE  Reaches(w, b, Over(m)[b][w])
      BY DEF Marks
    <3>1. Over(m)[b][w] = IF b = Nil THEN w
                          ELSE IF w.visit = 0 THEN SetMark(w, b)
                          ELSE InTurn(m, Children(b), Recursing(w, b))
      OBVIOUS
    <3> HIDE DEF Over
    <3>2. CASE b = Nil
      BY <1>3, <3>1, <3>2
    <3>3. CASE b # Nil
      BY <2>1, <3>1, <3>3
    <3> QED BY <3>2, <3>3
  <2> QED BY <2>2, <2>3
<1> DEFINE Body(f, n) ==
             [b \in Block \cup {Nil} |-> [w \in Works |->
               IF b = Nil THEN w
               ELSE IF w.visit = 0 THEN SetMark(w, b)
               ELSE IF n = 0 THEN Visited(w, b)
               ELSE InTurn(f[n - 1], Children(b), Recursing(w, b))]]
           Is(f) == f = [n \in 0 .. MaxDepth |-> Body(f, n)]
<1>6. \A f : Body(f, 0) = Last0 /\ \A n \in 1 .. MaxDepth : Body(f, n) = Over(f[n - 1])
  BY <1>1
<1>7. Marking = CHOOSE f : Is(f)
  BY DEF Marking
<1> HIDE DEF Body, Over, Last0, Sound
<1>8. \A i \in 1 .. MaxDepth : F[i] \in [Sound -> Sound] /\ \A m \in Sound : F[i][m] = Over(m)
  BY <1>5
<1> HIDE DEF F
<1>9. PICK g \in [0 .. MaxDepth -> Sound] : ByRecursion(g, F, Last0, MaxDepth)
  BY <1>1, <1>4, <1>8, RecursionExists
<1>10. Is(g)
  <2>1. g[0] = Body(g, 0)
    BY <1>6, <1>9 DEF ByRecursion
  <2>2. ASSUME NEW n \in 1 .. MaxDepth PROVE g[n] = Body(g, n)
    <3>1. g[n] = F[n][g[n - 1]] /\ g[n - 1] \in Sound
      BY <1>1, <1>9 DEF ByRecursion
    <3> QED BY <1>6, <1>8, <3>1
  <2>3. \A n \in 0 .. MaxDepth : g[n] = Body(g, n)
    BY <1>1, <2>1, <2>2
  <2> QED BY <2>3
<1>11. Is(Marking)
  BY <1>7, <1>10
<1>12. \A n \in 0 .. MaxDepth : Marking[n] = Body(Marking, n)
  BY <1>11
<1> DEFINE P == {n \in 0 .. MaxDepth : Marking[n] = g[n]}
<1>13. P = 0 .. MaxDepth
  <2>1. 0 \in P
    BY <1>1, <1>6, <1>9, <1>12 DEF ByRecursion
  <2>2. ASSUME NEW n \in 1 .. MaxDepth, n - 1 \in P PROVE n \in P
    <3>1. n \in 0 .. MaxDepth /\ n - 1 \in 0 .. MaxDepth
      BY <1>1
    <3>2. g[n] = F[n][g[n - 1]] /\ g[n - 1] \in Sound /\ Marking[n - 1] = g[n - 1]
      BY <1>9, <2>2, <3>1 DEF ByRecursion
    <3>3. Marking[n] = Over(g[n - 1])
      BY <1>6, <1>12, <3>1, <3>2
    <3> QED BY <1>8, <3>1, <3>2, <3>3
  <2>3. P \in SUBSET (0 .. MaxDepth)
    OBVIOUS
  <2> HIDE DEF P
  <2> QED BY <1>1, <2>1, <2>2, <2>3, UpTo
<1>14. \A n \in 0 .. MaxDepth : Marking[n] \in Sound
  BY <1>9, <1>13
<1> QED BY <1>14 DEF Sound

(* Mark, as a slice calls it: see Goes and Noticed.                        *)
LEMMA MarkReaches ==
  ASSUME TypeOK, NEW b \in Block
  PROVE  Work \in Works /\ Mark(b) \in Works /\ Reaches(Work, b, Mark(b))
<1>1. Work \in Works
  BY WorksAre DEF TypeOK, Work
<1>2. Marking[MaxDepth] \in Marker /\ Marks(Marking[MaxDepth])
  <2>1. MaxDepth \in 0 .. MaxDepth
    BY CollectorAssumption
  <2> QED BY <2>1, MarkingReaches
<1>3. Mark(b) = Marking[MaxDepth][b][Work]
  BY DEF Mark
<1> QED BY <1>1, <1>2, <1>3 DEF Marker, Marks

-----------------------------------------------------------------------------
(***************************************************************************)
(* What the program does, seen from the collector: an operation that does  *)
(* not allocate overwrites a reference only after it was shaded, and       *)
(* whatever it stores it found in the value register or on the stack.      *)
(***************************************************************************)
Shades ==
  /\ colour' \in [Block -> Colour] /\ nprop' \in BOOLEAN
  /\ nprop => nprop'
  /\ \A b \in Block : \/ colour'[b] = colour[b]
                      \/ colour[b] # "mutator" /\ colour'[b] = "propagator" /\ nprop'

Overwrites ==
  \A b \in Block : \/ Child(b)' = Child(b)
                   \/ Child(b) = Nil
                   \/ colour'[Child(b)] \in Dark

Stores ==
  /\ valr' \in {Nil, valr, field[Global]} \cup ToSet(stk) \cup {field[o] : o \in {valr} \ {Nil}}
  /\ \A b \in Obj \cup {Global} : field'[b] \in {field[b], valr}
  /\ ToSet(stk') \subseteq ToSet(stk) \cup {valr}

Tame ==
  /\ Program /\ UNCHANGED list
  /\ field' \in [Obj \cup {Global} -> Ref]
  /\ valr' \in Ref /\ stk' \in Seq(Ref) /\ Len(stk') <= StackSize
  /\ Shades /\ Overwrites /\ Stores

LEMMA BarrierShades ==
  ASSUME TypeOK, NEW old \in Ref,
         colour' = AfterBarrier(old).colour, nprop' = AfterBarrier(old).nprop
  PROVE  Shades /\ (old = Nil \/ colour'[old] \in Dark)
<1>1. Work \in Works /\ Work.colour = colour /\ Work.nprop = nprop
  BY MarkReaches DEF Work, TypeOK, Works
<1>2. CASE old = Nil
  <2>1. colour' = colour /\ nprop' = nprop
    BY <1>1, <1>2 DEF AfterBarrier
  <2> QED BY <1>2, <2>1 DEF Shades, TypeOK
<1>3. CASE old # Nil
  <2> DEFINE w == SetMark(Work, old)
  <2>1. old \in Block
    BY <1>3 DEF Ref, Block
  <2>2. w \in Works /\ w.colour = Shade(colour, old) /\ Reaches(Work, old, w)
    BY <1>1, <2>1, SetMarkReaches
  <2>3. colour' = w.colour /\ nprop' = w.nprop
    BY <1>3 DEF AfterBarrier
  <2> HIDE DEF w
  <2>4. colour' \in [Block -> Colour] /\ nprop' \in BOOLEAN
    BY <2>2, <2>3, WorkParts
  <2>5. (nprop => nprop') /\ (colour[old] # "mutator" => nprop')
    BY <1>1, <1>3, <2>2, <2>3 DEF Reaches, Goes
  <2>6. colour'[old] \in Dark
    BY <1>3, <2>2, <2>3 DEF Reaches, Noticed
  <2>7. \A b \in Block : colour'[b] = colour[b] \/ (b = old /\ colour[b] # "mutator" /\ colour'[b] = "propagator")
    BY <2>1, <2>2, <2>3 DEF Shade, TypeOK
  <2> QED BY <2>4, <2>5, <2>6, <2>7 DEF Shades
<1> QED BY <1>2, <1>3

(* The top of the stack and the rest. *)
LEMMA StackParts ==
  ASSUME TypeOK, stk # <<>>
  PROVE  /\ Last(stk) \in Ref /\ Last(stk) \in ToSet(stk)
         /\ Front(stk) \in Seq(Ref) /\ Len(Front(stk)) <= StackSize
         /\ ToSet(Front(stk)) \subseteq ToSet(stk)
<1>1. /\ Len(stk) \in Nat \ {0}
      /\ Front(stk) \in Seq(Ref) /\ Len(Front(stk)) = Len(stk) - 1
      /\ Last(stk) \in Ref /\ Last(stk) = stk[Len(stk)]
      /\ \A i \in 1 .. Len(stk) - 1 : Front(stk)[i] = stk[i]
  BY FrontProperties DEF TypeOK
<1>2. DOMAIN stk = 1 .. Len(stk) /\ DOMAIN Front(stk) = 1 .. Len(stk) - 1
  BY <1>1, LenProperties DEF TypeOK
<1>3. ToSet(Front(stk)) \subseteq ToSet(stk)
  BY <1>1, <1>2 DEF ToSet
<1>4. Last(stk) \in ToSet(stk)
  BY <1>1, <1>2 DEF ToSet
<1>5. Len(Front(stk)) <= StackSize
  BY <1>1, CollectorAssumption DEF TypeOK
<1> QED BY <1>1, <1>3, <1>4, <1>5

LEMMA OperationsAreTame ==
  ASSUME TypeOK,
         LoadNil \/ LoadGlobal \/ LoadCar \/ StoreGlobal \/ Push \/ Pop \/ SetCar
  PROVE  Tame
<1> USE DEF Child
<1>0. /\ valr \in Ref /\ Nil \in Ref /\ stk \in Seq(Ref) /\ Len(stk) <= StackSize
      /\ field \in [Obj \cup {Global} -> Ref] /\ Thread \notin Obj \cup {Global}
      /\ \A b \in Block : b # Thread => b \in Obj \cup {Global}
  BY Names DEF TypeOK, Ref, Block
<1>1. CASE LoadNil
  <2>1. Shades /\ (valr = Nil \/ colour'[valr] \in Dark)
    BY <1>0, <1>1, BarrierShades DEF LoadNil, SetValr, Barrier
  <2>2. Overwrites
    BY <1>1, <2>1 DEF LoadNil, Overwrites
  <2> QED BY <1>0, <1>1, <2>1, <2>2 DEF LoadNil, SetValr, Stores, Tame
<1>2. CASE LoadGlobal
  <2>1. Shades /\ (valr = Nil \/ colour'[valr] \in Dark)
    BY <1>0, <1>2, BarrierShades DEF LoadGlobal, SetValr, Barrier
  <2>2. Overwrites
    BY <1>2, <2>1 DEF LoadGlobal, Overwrites
  <2> QED BY <1>0, <1>2, <2>1, <2>2 DEF LoadGlobal, SetValr, Stores, Tame
<1>3. CASE LoadCar
  <2>1. Shades /\ (valr = Nil \/ colour'[valr] \in Dark)
    BY <1>0, <1>3, BarrierShades DEF LoadCar, SetValr, Barrier
  <2>2. Overwrites
    BY <1>3, <2>1 DEF LoadCar, Overwrites
  <2>3. valr \in Obj
    BY <1>0, <1>3 DEF LoadCar, Ref
  <2> QED BY <1>0, <1>3, <2>1, <2>2, <2>3 DEF LoadCar, SetValr, Stores, Tame
<1>4. CASE StoreGlobal
  <2>1. Shades /\ (field[Global] = Nil \/ colour'[field[Global]] \in Dark)
    BY <1>0, <1>4, BarrierShades DEF StoreGlobal, Barrier
  <2>2. Overwrites
    BY <1>0, <1>4, <2>1 DEF StoreGlobal, Overwrites
  <2> QED BY <1>0, <1>4, <2>1, <2>2 DEF StoreGlobal, Stores, Tame
<1>5. CASE Push
  <2>1. Shades
    BY <1>5 DEF Push, Shades, TypeOK
  <2>2. /\ stk' \in Seq(Ref) /\ ToSet(stk') = ToSet(stk) \cup {valr}
        /\ Len(stk') = Len(stk) + 1
    BY <1>0, <1>5, AppendMembers, AppendProperties DEF Push
  <2>3. Len(stk) \in Nat
    BY <1>0, LenProperties
  <2>4. Len(stk') <= StackSize
    BY <1>5, <2>2, <2>3, CollectorAssumption DEF Push
  <2>5. Overwrites
    BY <1>5 DEF Push, Overwrites
  <2> QED BY <1>0, <1>5, <2>1, <2>2, <2>4, <2>5 DEF Push, Stores, Tame
<1>6. CASE Pop
  <2>1. Shades /\ (valr = Nil \/ colour'[valr] \in Dark)
    BY <1>0, <1>6, BarrierShades DEF Pop, SetValr, Barrier
  <2>2. Overwrites
    BY <1>6, <2>1 DEF Pop, Overwrites
  <2> QED BY <1>0, <1>6, <2>1, <2>2, StackParts DEF Pop, SetValr, Stores, Tame
<1>7. CASE SetCar
  <2>1. Last(stk) \in Obj /\ field[Last(stk)] \in Ref
    BY <1>0, <1>7, StackParts DEF SetCar, Ref
  <2>2. Shades /\ (field[Last(stk)] = Nil \/ colour'[field[Last(stk)]] \in Dark)
    BY <2>1, <1>7, BarrierShades DEF SetCar, Barrier
  <2>3. Overwrites
    BY <1>0, <1>7, <2>1, <2>2 DEF SetCar, Overwrites
  <2> QED BY <1>0, <1>7, <2>1, <2>2, <2>3, StackParts DEF SetCar, Stores, Tame
<1> QED BY <1>1, <1>2, <1>3, <1>4, <1>5, <1>6, <1>7

-----------------------------------------------------------------------------
(***************************************************************************)
(* The list and the cursor.                                                *)
(***************************************************************************)

(* The cursor and the block before it; a slice that has begun with the     *)
(* head of the list does not end before it has gone on.                    *)
PlaceInv ==
  /\ gcptr # Nil => \E i \in 1 .. Len(list) :
                      /\ list[i] = gcptr
                      /\ gcpptr = IF i = 1 THEN Nil ELSE list[i - 1]
  /\ gcptr # Nil /\ gcpptr = Nil => phase = "gc" /\ visit > 0

(* The roots are never swept. *)
RootsDark == colour[Thread] \in Dark /\ colour[Global] \in Dark

(* PropagatorsAreSeen, by places in the list. *)
SeenInv ==
  \A b \in Allocated : colour[b] = "propagator" =>
    \/ nprop
    \/ gcptr = Nil /\ phase = "program"
    \/ \E i, j \in 1 .. Len(list) : i <= j /\ list[i] = gcptr /\ list[j] = b

CursorInv == TypeOK /\ PlaceInv /\ RootsDark /\ SeenInv

LEMMA ListParts ==
  ASSUME TypeOK
  PROVE  /\ Len(list) \in Nat /\ DOMAIN list = 1 .. Len(list)
         /\ \A i \in 1 .. Len(list) : list[i] \in Block /\ list[i] \in Allocated /\ list[i] # Nil
         /\ \A b \in Allocated : \E i \in 1 .. Len(list) : list[i] = b
         /\ Allocated \subseteq Block
         /\ \A i, j \in 1 .. Len(list) : list[i] = list[j] => i = j
<1>1. Len(list) \in Nat /\ DOMAIN list = 1 .. Len(list)
  BY LenProperties DEF TypeOK
<1>2. \A i \in 1 .. Len(list) : list[i] \in Block /\ list[i] # Nil
  BY ElementOfSeq, Names DEF TypeOK
<1>3. Allocated = {list[i] : i \in 1 .. Len(list)}
  BY <1>1 DEF Allocated, ToSet
<1>4. \A i, j \in 1 .. Len(list) : list[i] = list[j] => i = j
  BY <1>1 DEF TypeOK, IsInjective
<1> QED BY <1>1, <1>2, <1>3, <1>4

LEMMA PlaceOf ==
  ASSUME TypeOK, NEW i \in 1 .. Len(list)
  PROVE  /\ Place(list[i]) = i
         /\ After(list[i]) = IF i = Len(list) THEN Nil ELSE list[i + 1]
<1> DEFINE b == list[i]
<1>1. \A j \in DOMAIN list : list[j] = b <=> j = i
  BY ListParts
<1>2. i \in DOMAIN list
  BY ListParts
<1>3. Place(b) = i
  BY <1>1, <1>2 DEF Place
<1> QED BY <1>3 DEF After

(* The cursor goes on. *)
LEMMA CursorAdvances ==
  ASSUME TypeOK, PlaceInv, gcptr # Nil, Advance, UNCHANGED list
  PROVE  /\ gcptr' \in Block \cup {Nil} /\ gcpptr' \in Block \cup {Nil}
         /\ PlaceInv'
         /\ \E i \in 1 .. Len(list) :
              /\ list[i] = gcptr
              /\ gcptr' = IF i = Len(list) THEN Nil ELSE list[i + 1]
<1>1. PICK i \in 1 .. Len(list) : list[i] = gcptr
  BY DEF PlaceInv
<1>2. gcptr' = IF i = Len(list) THEN Nil ELSE list[i + 1]
  BY <1>1, PlaceOf DEF Advance
<1>3. gcpptr' = list[i]
  BY <1>1 DEF Advance
<1>4. Len(list) \in Nat /\ \A k \in 1 .. Len(list) : list[k] \in Block /\ list[k] # Nil
  BY ListParts
<1>5. CASE i = Len(list)
  BY <1>1, <1>2, <1>3, <1>4, <1>5 DEF PlaceInv
<1>6. CASE i # Len(list)
  <2>1. i + 1 \in 1 .. Len(list) /\ i + 1 # 1 /\ (i + 1) - 1 = i
    BY <1>4, <1>6
  <2> DEFINE k == i + 1
  <2>2. k \in 1 .. Len(list) /\ k # 1 /\ k - 1 = i /\ gcptr' = list[k]
    BY <1>2, <1>6, <2>1
  <2> HIDE DEF k
  <2>3. gcpptr' # Nil /\ gcpptr' = list'[k - 1] /\ list'[k] = gcptr'
    BY <1>3, <1>4, <2>2
  <2>4. PlaceInv'
    BY <2>2, <2>3 DEF PlaceInv
  <2> QED BY <1>1, <1>2, <1>3, <1>4, <2>2, <2>4
<1> QED BY <1>5, <1>6

(* A new head of the list. *)
LEMMA Consed ==
  ASSUME TypeOK, NEW o \in Obj, o \notin Allocated, list' = <<o>> \o list
  PROVE  /\ list' \in Seq(Block) /\ IsInjective(list')
         /\ Allocated' = Allocated \cup {o}
         /\ Len(list') = Len(list) + 1
         /\ list'[1] = o
         /\ \A i \in 1 .. Len(list) : i + 1 \in 1 .. Len(list') /\ list'[i + 1] = list[i]
<1>1. Len(list) \in Nat /\ DOMAIN list = 1 .. Len(list) /\ list \in Seq(Block)
  BY ListParts DEF TypeOK
<1>2. <<o>> \in Seq(Block) /\ Len(<<o>>) = 1 /\ <<o>>[1] = o
  BY DEF Block
<1>3. /\ list' \in Seq(Block) /\ Len(list') = 1 + Len(list)
      /\ \A i \in 1 .. 1 + Len(list) : list'[i] = IF i <= 1 THEN <<o>>[i] ELSE list[i - 1]
  BY <1>1, <1>2, ConcatProperties
<1>4. list'[1] = o
  BY <1>1, <1>2, <1>3
<1>5. \A i \in 1 .. Len(list) : i + 1 \in 1 .. Len(list') /\ list'[i + 1] = list[i]
  BY <1>1, <1>3
<1>6. DOMAIN list' = 1 .. Len(list')
  BY <1>3, LenProperties
<1>7. \A i \in 1 .. Len(list') : i = 1 \/ \E j \in 1 .. Len(list) : i = j + 1 /\ list'[i] = list[j]
  <2> SUFFICES ASSUME NEW i \in 1 .. Len(list'), i # 1
               PROVE  \E j \in 1 .. Len(list) : i = j + 1 /\ list'[i] = list[j]
    OBVIOUS
  <2> DEFINE j == i - 1
  <2>1. j \in 1 .. Len(list) /\ i = j + 1
    BY <1>1, <1>3
  <2> HIDE DEF j
  <2> QED BY <1>5, <2>1
<1>8. Allocated' = Allocated \cup {o}
  <2>1. ToSet(list') = {list'[i] : i \in 1 .. Len(list')} /\ ToSet(list) = {list[i] : i \in 1 .. Len(list)}
    BY <1>1, <1>6 DEF ToSet
  <2>2. 1 \in 1 .. Len(list')
    BY <1>1, <1>3
  <2> QED BY <1>4, <1>5, <1>7, <2>1, <2>2 DEF Allocated
<1>9. IsInjective(list')
  <2> SUFFICES ASSUME NEW a \in 1 .. Len(list'), NEW b \in 1 .. Len(list'), list'[a] = list'[b]
               PROVE  a = b
    BY <1>6 DEF IsInjective
  <2>1. \A j \in 1 .. Len(list) : list[j] # o
    BY ListParts
  <2>2. \A i, j \in 1 .. Len(list) : list[i] = list[j] => i = j
    BY ListParts
  <2> QED BY <1>4, <1>7, <2>1, <2>2
<1> QED BY <1>1, <1>3, <1>4, <1>5, <1>8, <1>9

(* free_block takes the block at the cursor off the list, and no other.    *)
LEMMA Freeing ==
  ASSUME TypeOK, PlaceInv, NEW i \in 1 .. Len(list), list[i] = gcptr
  PROVE  Unlinked(gcptr) = RemoveAt(list, i)
<1>1. gcpptr = IF i = 1 THEN Nil ELSE list[i - 1]
  BY ListParts DEF PlaceInv
<1>2. Place(gcptr) = i
  BY PlaceOf
<1>3. Len(list) \in Nat /\ \A k \in 1 .. Len(list) : list[k] # Nil
  BY ListParts
<1>4. CASE i = 1
  <2>1. Unlinked(gcptr) = <<>> \o SubSeq(list, i + 1, Len(list))
    BY <1>1, <1>2, <1>4 DEF Unlinked
  <2>2. SubSeq(list, 1, i - 1) = <<>>
    BY <1>4, SubSeqEmpty
  <2> QED BY <2>1, <2>2 DEF RemoveAt
<1>5. CASE i # 1
  <2> DEFINE k == i - 1
  <2>1. k \in 1 .. Len(list) /\ gcpptr = list[k] /\ gcpptr # Nil
    BY <1>1, <1>3, <1>5
  <2>2. Place(gcpptr) = k
    BY <2>1, PlaceOf
  <2> QED BY <1>2, <2>1, <2>2 DEF Unlinked, RemoveAt
<1> QED BY <1>4, <1>5

-----------------------------------------------------------------------------
(* CursorInv, one action after the other. *)

LEMMA CursorInitially ==
  ASSUME Init
  PROVE  CursorInv
<1>1. list \in Seq(Block) /\ Len(list) = 2 /\ list[1] = Thread /\ list[2] = Global
  BY DEF Init, Block
<1>2. DOMAIN list = 1 .. 2 /\ 1 \in 1 .. 2 /\ 2 \in 1 .. 2
  BY <1>1, LenProperties
<1>3. IsInjective(list)
  BY <1>1, <1>2, Names DEF IsInjective
<1>4. {Global, Thread} \subseteq Allocated
  BY <1>1, <1>2 DEF Allocated, ToSet
<1>5. stk \in Seq(Ref) /\ Len(stk) <= StackSize
  BY CollectorAssumption DEF Init
<1>6. TypeOK
  <2>1. nprop \in BOOLEAN /\ phase \in {"program", "gc"} /\ valr \in Ref
        /\ gcptr \in Block \cup {Nil} /\ gcpptr \in Block \cup {Nil}
    BY Zenon DEF Init, Ref
  <2>2. visit \in 0 .. MaxQuantum
    BY CollectorAssumption DEF Init
  <2>3. colour \in [Block -> Colour] /\ field \in [Obj \cup {Global} -> Ref]
    BY DEF Init, Colour, Ref
  <2> QED BY <1>1, <1>3, <1>4, <1>5, <2>1, <2>2, <2>3 DEF TypeOK
<1>7. Global \in Block /\ Thread \in Block
  BY DEF Block
<1>8. \A b \in Block : colour[b] = "mutator"
  BY DEF Init
<1>9. Allocated \subseteq Block
  BY <1>6, ListParts
<1> QED BY <1>6, <1>7, <1>8, <1>9 DEF Init, CursorInv, PlaceInv, RootsDark, SeenInv, Dark

LEMMA CursorInTame ==
  ASSUME CursorInv, Tame
  PROVE  CursorInv'
<1>1. UNCHANGED <<list, gcptr, gcpptr, visit, phase>>
  BY DEF Tame, Program, cursor
<1>2. TypeOK'
  BY <1>1 DEF CursorInv, TypeOK, Tame, Shades, Allocated
<1>3. PlaceInv'
  BY <1>1 DEF CursorInv, PlaceInv
<1>4. RootsDark'
  BY DEF CursorInv, RootsDark, Tame, Shades, Dark, Block
<1>5. SeenInv'
  <2>1. Allocated' = Allocated /\ Allocated \subseteq Block
    BY <1>1, ListParts DEF CursorInv, Allocated
  <2> QED BY <1>1, <2>1 DEF CursorInv, SeenInv, Tame, Shades
<1> QED BY <1>2, <1>3, <1>4, <1>5 DEF CursorInv

(* A new block: what its constructor does beside.                          *)
Conses(o) ==
  /\ Program
  /\ o \notin Allocated
  /\ list' = <<o>> \o list
  /\ colour' \in [Block -> Colour] /\ nprop' \in BOOLEAN /\ (nprop => nprop')
  /\ colour'[o] = "mutator"
  /\ \A b \in Block \ {o} :
       \/ colour'[b] = colour[b]
       \/ colour[b] # "mutator" /\ colour'[b] = "propagator" /\ nprop'
  /\ valr' = o /\ (valr = o \/ valr = Nil \/ colour'[valr] \in Dark)
  /\ stk' \in Seq(Ref) /\ Len(stk') <= StackSize /\ ToSet(stk') \subseteq ToSet(stk)
  /\ field' \in [Obj \cup {Global} -> Ref]
  /\ field'[o] \in {valr} \cup ToSet(stk)
  /\ \A b \in Obj \cup {Global} : b # o => field'[b] = field[b]

LEMMA MkConsConses ==
  ASSUME TypeOK, NEW o \in Obj, MkCons(o)
  PROVE  Conses(o)
<1> DEFINE w == AfterBarrier(valr)
<1>1. Work \in Works /\ Work.colour = colour /\ Work.nprop = nprop
  BY MarkReaches DEF Work, TypeOK, Works
<1>2. /\ w \in Works
      /\ nprop => w.nprop
      /\ \A b \in Block : \/ w.colour[b] = colour[b]
                          \/ colour[b] # "mutator" /\ w.colour[b] = "propagator" /\ w.nprop
      /\ valr = Nil \/ w.colour[valr] \in Dark
  <2>1. CASE valr = Nil
    <3>1. w = Work
      BY <2>1 DEF AfterBarrier
    <3> QED BY <1>1, <2>1, <3>1
  <2>2. CASE valr # Nil
    <3>1. valr \in Block
      BY <2>2 DEF TypeOK, Ref, Block
    <3>2. w = SetMark(Work, valr)
      BY <2>2 DEF AfterBarrier
    <3>3. w \in Works /\ w.colour = Shade(colour, valr) /\ Reaches(Work, valr, w)
      BY <1>1, <3>1, <3>2, SetMarkReaches
    <3>4. (nprop => w.nprop) /\ (colour[valr] # "mutator" => w.nprop) /\ w.colour[valr] \in Dark
      BY <1>1, <2>2, <3>3 DEF Reaches, Goes, Noticed
    <3>5. \A b \in Block : w.colour[b] = colour[b] \/ (b = valr /\ colour[b] # "mutator" /\ w.colour[b] = "propagator")
      BY <3>1, <3>3 DEF Shade, TypeOK
    <3> QED BY <3>3, <3>4, <3>5
  <2> QED BY <2>1, <2>2
<1> HIDE DEF w
<1>3. w.colour \in [Block -> Colour] /\ w.nprop \in BOOLEAN
  BY <1>2, WorkParts
<1>4. colour' = [w.colour EXCEPT ![o] = "mutator"] /\ nprop' = w.nprop
  BY DEF MkCons, w
<1>5. o \in Block /\ (valr = Nil \/ valr \in Block)
  BY DEF Block, TypeOK, Ref
<1>6. /\ colour' \in [Block -> Colour] /\ colour'[o] = "mutator"
      /\ \A b \in Block \ {o} : colour'[b] = w.colour[b]
  BY <1>3, <1>4, <1>5 DEF Colour
<1>7. valr = o \/ valr = Nil \/ colour'[valr] \in Dark
  BY <1>2, <1>5, <1>6
<1>8. /\ Last(stk) \in Ref /\ Last(stk) \in ToSet(stk)
      /\ Front(stk) \in Seq(Ref) /\ Len(Front(stk)) <= StackSize
      /\ ToSet(Front(stk)) \subseteq ToSet(stk)
  BY StackParts DEF MkCons
<1>9. field \in [Obj \cup {Global} -> Ref] /\ valr \in Ref
  BY DEF TypeOK
<1> QED BY <1>2, <1>3, <1>4, <1>6, <1>7, <1>8, <1>9 DEF MkCons, Conses

LEMMA CursorInConses ==
  ASSUME CursorInv, NEW o \in Obj, Conses(o)
  PROVE  CursorInv'
<1>1. UNCHANGED <<gcptr, gcpptr, visit, phase>> /\ phase = "program"
  BY DEF Conses, Program, cursor
<1>2. /\ list' \in Seq(Block) /\ IsInjective(list')
      /\ Allocated' = Allocated \cup {o}
      /\ Len(list') = Len(list) + 1
      /\ list'[1] = o
      /\ \A i \in 1 .. Len(list) : i + 1 \in 1 .. Len(list') /\ list'[i + 1] = list[i]
  BY Consed DEF CursorInv, Conses
<1>3. o \in Ref /\ Thread \in Block \ {o} /\ Global \in Block \ {o}
  BY Names DEF Ref, Block
<1>4. TypeOK'
  BY <1>1, <1>2, <1>3 DEF CursorInv, TypeOK, Conses
<1>5. Len(list) \in Nat
  BY ListParts DEF CursorInv
<1>6. PlaceInv'
  <2>1. CASE gcptr = Nil
    BY <1>1, <2>1 DEF PlaceInv
  <2>2. CASE gcptr # Nil
    <3>1. gcpptr # Nil
      BY <1>1, <2>2 DEF CursorInv, PlaceInv
    <3>2. PICK i \in 1 .. Len(list) : list[i] = gcptr /\ gcpptr = IF i = 1 THEN Nil ELSE list[i - 1]
      BY <2>2 DEF CursorInv, PlaceInv
    <3> DEFINE k == i + 1
               j == i - 1
    <3>3. k \in 1 .. Len(list') /\ k # 1 /\ list'[k] = gcptr
      BY <1>2, <3>2
    <3>4. j \in 1 .. Len(list) /\ j + 1 = k - 1 /\ gcpptr = list[j]
      BY <1>5, <3>1, <3>2
    <3> HIDE DEF k, j
    <3>5. gcpptr = list'[k - 1]
      BY <1>2, <3>4
    <3> QED BY <1>1, <3>1, <3>3, <3>5 DEF PlaceInv
  <2> QED BY <2>1, <2>2
<1>7. RootsDark'
  BY <1>3 DEF CursorInv, RootsDark, Conses, Dark
<1>8. SeenInv'
  <2> SUFFICES ASSUME NEW b \in Allocated', colour'[b] = "propagator"
               PROVE  \/ nprop' \/ (gcptr' = Nil /\ phase' = "program")
                      \/ \E i, j \in 1 .. Len(list') : i <= j /\ list'[i] = gcptr' /\ list'[j] = b
    BY DEF SeenInv
  <2>1. b # o /\ b \in Allocated /\ b \in Block
    BY <1>2, ListParts DEF CursorInv, Conses
  <2>2. colour[b] = "propagator" \/ nprop'
    BY <2>1 DEF Conses
  <2>3. CASE \E i, j \in 1 .. Len(list) : i <= j /\ list[i] = gcptr /\ list[j] = b
    <3>1. PICK i \in 1 .. Len(list), j \in 1 .. Len(list) : i <= j /\ list[i] = gcptr /\ list[j] = b
      BY <2>3
    <3>2. i + 1 <= j + 1 /\ i + 1 \in 1 .. Len(list') /\ j + 1 \in 1 .. Len(list')
          /\ list'[i + 1] = gcptr' /\ list'[j + 1] = b
      BY <1>1, <1>2, <3>1
    <3> QED BY <3>2
  <2> QED BY <1>1, <2>1, <2>2, <2>3 DEF CursorInv, SeenInv, Conses
<1> QED BY <1>4, <1>6, <1>7, <1>8 DEF CursorInv

LEMMA CursorInBegin ==
  ASSUME CursorInv, Begin
  PROVE  CursorInv'
<1>1. UNCHANGED <<list, colour, valr, stk, field, nprop>> /\ phase = "program" /\ phase' = "gc"
      /\ visit' \in 1 .. MaxQuantum
  BY DEF Begin, program
<1>2. /\ Len(list) \in Nat /\ Len(list) # 0 /\ Head(list) = list[1]
      /\ list[1] \in Block /\ list[1] # Nil
  <2>1. Allocated # {}
    BY DEF CursorInv, TypeOK
  <2>2. Len(list) \in Nat /\ Len(list) # 0
    BY <2>1, ListParts DEF CursorInv
  <2>3. Head(list) = list[1]
    BY DEF CursorInv, TypeOK
  <2> QED BY <2>2, <2>3, ListParts DEF CursorInv
<1>3. visit' \in 0 .. MaxQuantum /\ visit' > 0
  BY <1>1, CollectorAssumption
<1>4. CASE gcptr = Nil
  <2>1. gcptr' = list[1] /\ gcpptr' = Nil /\ 1 \in 1 .. Len(list)
    BY <1>2, <1>4 DEF Begin
  <2>2. TypeOK'
    BY <1>1, <1>2, <1>3, <2>1 DEF CursorInv, TypeOK, Allocated
  <2>3. PlaceInv'
    BY <1>1, <1>3, <2>1 DEF PlaceInv
  <2>4. SeenInv'
    <3>1. \A b \in Allocated : \E j \in 1 .. Len(list) : 1 <= j /\ list[j] = b
      BY ListParts DEF CursorInv
    <3>2. Allocated' = Allocated
      BY <1>1 DEF Allocated
    <3> QED BY <1>1, <2>1, <3>1, <3>2 DEF SeenInv
  <2> QED BY <1>1, <2>2, <2>3, <2>4 DEF CursorInv, RootsDark
<1>5. CASE gcptr # Nil
  <2>1. UNCHANGED <<gcptr, gcpptr>>
    BY <1>5 DEF Begin, cursor
  <2>2. TypeOK'
    BY <1>1, <1>3, <2>1 DEF CursorInv, TypeOK, Allocated
  <2>3. PlaceInv'
    BY <1>1, <1>3, <2>1 DEF CursorInv, PlaceInv
  <2>4. SeenInv'
    <3>2. Allocated' = Allocated
      BY <1>1 DEF Allocated
    <3> QED BY <1>1, <1>5, <2>1, <3>2 DEF CursorInv, SeenInv
  <2> QED BY <1>1, <2>2, <2>3, <2>4 DEF CursorInv, RootsDark
<1> QED BY <1>4, <1>5

(* What a visit to a propagator does to the colours.                       *)
LEMMA VisitMarks ==
  ASSUME TypeOK, VisitPropagator
  PROVE  /\ colour' \in [Block -> Colour] /\ visit' \in 0 .. MaxQuantum
         /\ nprop' = TRUE
         /\ \A b \in Block : Rises(colour[b], colour'[b])
         /\ \A b \in Block : colour[b] # "mutator" /\ colour'[b] = "mutator" =>
              Child(b) = Nil \/ colour'[Child(b)] \in Dark
<1> DEFINE w == Mark(gcptr)
<1>1. gcptr \in Block /\ colour[gcptr] = "propagator" /\ gcptr # Nil
  BY DEF VisitPropagator, Visiting, TypeOK
<1>2. w \in Works /\ Work \in Works /\ Reaches(Work, gcptr, w)
  BY <1>1, MarkReaches
<1>3. colour' = w.colour /\ nprop' = w.nprop /\ visit' = w.visit
  BY DEF VisitPropagator
<1> HIDE DEF w
<1>4. Work.colour = colour
  BY DEF Work
<1>5. w.nprop /\ w.nprop \in BOOLEAN
  BY <1>1, <1>2, <1>4, WorkParts DEF Reaches
<1>6. nprop' = TRUE
  BY <1>3, <1>5
<1> QED BY <1>2, <1>3, <1>4, <1>6, WorkParts DEF Reaches, Goes, Noticed

LEMMA CursorInVisitPropagator ==
  ASSUME CursorInv, VisitPropagator
  PROVE  CursorInv'
<1>1. UNCHANGED <<list, valr, stk, field, phase>> /\ gcptr # Nil /\ Advance
  BY DEF VisitPropagator, Visiting, program
<1>2. gcptr' \in Block \cup {Nil} /\ gcpptr' \in Block \cup {Nil} /\ PlaceInv'
  BY <1>1, CursorAdvances DEF CursorInv
<1>3. /\ colour' \in [Block -> Colour] /\ visit' \in 0 .. MaxQuantum
      /\ nprop' = TRUE
      /\ \A b \in Block : Rises(colour[b], colour'[b])
  BY VisitMarks DEF CursorInv
<1>4. TypeOK'
  BY <1>1, <1>2, <1>3 DEF CursorInv, TypeOK, Allocated
<1>5. RootsDark'
  BY <1>3 DEF CursorInv, RootsDark, Rises, Dark, Block
<1>6. SeenInv'
  BY <1>3 DEF SeenInv
<1> QED BY <1>2, <1>4, <1>5, <1>6 DEF CursorInv

LEMMA CursorInVisitOther ==
  ASSUME CursorInv, VisitOther
  PROVE  CursorInv'
<1>1. /\ UNCHANGED <<list, colour, valr, stk, field, nprop, visit, phase>>
      /\ gcptr # Nil /\ Advance /\ phase = "gc" /\ colour[gcptr] # "propagator"
  BY DEF VisitOther, Visiting, program
<1>2. gcptr' \in Block \cup {Nil} /\ gcpptr' \in Block \cup {Nil} /\ PlaceInv'
  BY <1>1, CursorAdvances DEF CursorInv
<1>3. PICK i \in 1 .. Len(list) :
        list[i] = gcptr /\ gcptr' = IF i = Len(list) THEN Nil ELSE list[i + 1]
  BY <1>1, CursorAdvances DEF CursorInv
<1>4. TypeOK'
  BY <1>1, <1>2 DEF CursorInv, TypeOK, Allocated
<1>5. SeenInv'
  <2> SUFFICES ASSUME NEW b \in Allocated', colour'[b] = "propagator", ~nprop'
               PROVE  \E k, j \in 1 .. Len(list') : k <= j /\ list'[k] = gcptr' /\ list'[j] = b
    BY DEF SeenInv
  <2>1. b \in Allocated /\ colour[b] = "propagator" /\ ~nprop
    BY <1>1 DEF Allocated
  <2>2. PICK k \in 1 .. Len(list), j \in 1 .. Len(list) : k <= j /\ list[k] = gcptr /\ list[j] = b
    BY <1>1, <2>1 DEF CursorInv, SeenInv
  <2>3. k = i /\ Len(list) \in Nat
    BY <1>3, <2>2, ListParts DEF CursorInv
  <2>4. j # i
    BY <1>1, <1>3, <2>1, <2>2
  <2>5. i + 1 \in 1 .. Len(list) /\ i + 1 <= j /\ gcptr' = list[i + 1]
    BY <1>3, <2>2, <2>3, <2>4
  <2> QED BY <1>1, <2>2, <2>5
<1> QED BY <1>1, <1>2, <1>4, <1>5 DEF CursorInv, RootsDark

(* A visit to a sweeper, block by block. *)
LEMMA VisitFrees ==
  ASSUME CursorInv, VisitSweeper
  PROVE  /\ UNCHANGED <<valr, stk, nprop, visit, phase, gcpptr>>
         /\ phase = "gc" /\ visit > 0
         /\ gcptr \in Obj /\ colour[gcptr] = "sweeper"
         /\ list' \in Seq(Block) /\ IsInjective(list')
         /\ Allocated' = Allocated \ {gcptr}
         /\ colour' = [colour EXCEPT ![gcptr] = "mutator"]
         /\ field' = [field EXCEPT ![gcptr] = Nil]
         /\ \E i \in 1 .. Len(list) :
              /\ list[i] = gcptr
              /\ Len(list') = Len(list) - 1
              /\ \A j \in 1 .. Len(list) - 1 : list'[j] = IF j < i THEN list[j] ELSE list[j + 1]
              /\ gcptr' = IF i = Len(list) THEN Nil ELSE list[i + 1]
<1>1. /\ UNCHANGED <<valr, stk, nprop, visit, phase, gcpptr>>
      /\ phase = "gc" /\ visit > 0 /\ gcptr # Nil
      /\ colour[gcptr] = "sweeper"
      /\ list' = Unlinked(gcptr) /\ gcptr' = After(gcptr)
      /\ colour' = [colour EXCEPT ![gcptr] = "mutator"]
      /\ field' = [field EXCEPT ![gcptr] = Nil]
  BY DEF VisitSweeper, Visiting, Freed
<1>2. gcptr \in Obj
  BY <1>1 DEF CursorInv, TypeOK, RootsDark, Dark, Block
<1>3. PICK i \in 1 .. Len(list) : list[i] = gcptr
  BY <1>1 DEF CursorInv, PlaceInv
<1>4. list' = RemoveAt(list, i)
  BY <1>1, <1>3, Freeing DEF CursorInv
<1>5. gcptr' = IF i = Len(list) THEN Nil ELSE list[i + 1]
  BY <1>1, <1>3, PlaceOf DEF CursorInv
<1>6. /\ list' \in Seq(Block) /\ Len(list') = Len(list) - 1
      /\ \A j \in 1 .. Len(list) - 1 : list'[j] = IF j < i THEN list[j] ELSE list[j + 1]
  BY <1>4, RemoveAtElements DEF CursorInv, TypeOK
<1>7. IsInjective(list') /\ Allocated' = Allocated \ {gcptr}
  BY <1>3, <1>4, RemoveAtMembers DEF CursorInv, TypeOK, Allocated
<1> QED BY <1>1, <1>2, <1>3, <1>5, <1>6, <1>7

LEMMA CursorInVisitSweeper ==
  ASSUME CursorInv, VisitSweeper
  PROVE  CursorInv'
<1>1. /\ UNCHANGED <<valr, stk, nprop, visit, phase, gcpptr>>
      /\ phase = "gc" /\ visit > 0
      /\ gcptr \in Obj /\ colour[gcptr] = "sweeper"
      /\ list' \in Seq(Block) /\ IsInjective(list')
      /\ Allocated' = Allocated \ {gcptr}
      /\ colour' = [colour EXCEPT ![gcptr] = "mutator"]
      /\ field' = [field EXCEPT ![gcptr] = Nil]
  BY VisitFrees
<1>2. PICK i \in 1 .. Len(list) :
        /\ list[i] = gcptr
        /\ Len(list') = Len(list) - 1
        /\ \A j \in 1 .. Len(list) - 1 : list'[j] = IF j < i THEN list[j] ELSE list[j + 1]
        /\ gcptr' = IF i = Len(list) THEN Nil ELSE list[i + 1]
  BY VisitFrees
<1>3. /\ Len(list) \in Nat
      /\ \A k \in 1 .. Len(list) : list[k] \in Block /\ list[k] # Nil
      /\ \A j, k \in 1 .. Len(list) : list[j] = list[k] => j = k
  BY ListParts DEF CursorInv
<1>4. gcptr' \in Block \cup {Nil}
  <2>1. i # Len(list) => i + 1 \in 1 .. Len(list)
    BY <1>3
  <2> QED BY <1>2, <1>3, <2>1
<1>5. Thread # gcptr /\ Global # gcptr /\ Nil \in Ref
  BY <1>1, Names DEF Ref
<1>6. TypeOK'
  BY <1>1, <1>4, <1>5 DEF CursorInv, TypeOK, Colour
<1>7. RootsDark'
  BY <1>1, <1>5 DEF CursorInv, RootsDark, TypeOK, Block
<1>8. PlaceInv'
  <2>1. gcpptr = IF i = 1 THEN Nil ELSE list[i - 1]
    BY <1>1, <1>2, <1>3 DEF CursorInv, PlaceInv
  <2>2. CASE i = Len(list)
    BY <1>1, <1>2, <2>2 DEF PlaceInv
  <2>3. CASE i # Len(list)
    <3>1. i \in 1 .. Len(list) - 1 /\ ~(i < i) /\ gcptr' = list[i + 1]
      BY <1>2, <1>3, <2>3
    <3>2. list'[i] = gcptr' /\ i \in 1 .. Len(list')
      BY <1>2, <3>1
    <3>3. i # 1 => list'[i - 1] = list[i - 1]
      <4> SUFFICES ASSUME i # 1 PROVE list'[i - 1] = list[i - 1]
        OBVIOUS
      <4>1. i - 1 \in 1 .. Len(list) - 1 /\ i - 1 < i
        BY <1>3, <3>1
      <4> QED BY <1>2, <4>1
    <3> QED BY <1>1, <2>1, <3>2, <3>3 DEF PlaceInv
  <2> QED BY <2>2, <2>3
<1>9. SeenInv'
  <2> SUFFICES ASSUME NEW b \in Allocated', colour'[b] = "propagator", ~nprop'
               PROVE  \E k, j \in 1 .. Len(list') : k <= j /\ list'[k] = gcptr' /\ list'[j] = b
    BY DEF SeenInv
  <2>1. b \in Allocated /\ b # gcptr /\ colour[b] = "propagator" /\ ~nprop
    BY <1>1, ListParts DEF CursorInv, TypeOK
  <2>2. gcptr # Nil
    BY <1>2, <1>3
  <2>3. PICK k \in 1 .. Len(list), j \in 1 .. Len(list) : k <= j /\ list[k] = gcptr /\ list[j] = b
    BY <2>1, <2>2 DEF CursorInv, SeenInv
  <2>4. k = i
    BY <1>2, <1>3, <2>3
  <2>5. j > i
    BY <1>2, <2>1, <2>3, <2>4
  <2> DEFINE m == j - 1
  <2>6. /\ i \in 1 .. Len(list) - 1 /\ i # Len(list) /\ ~(i < i)
        /\ m \in 1 .. Len(list) - 1 /\ ~(m < i) /\ m + 1 = j /\ i <= m
    BY <1>3, <2>3, <2>5
  <2> HIDE DEF m
  <2>7. list'[i] = gcptr' /\ list'[m] = b /\ i \in 1 .. Len(list') /\ m \in 1 .. Len(list')
    BY <1>2, <2>3, <2>6
  <2> QED BY <2>6, <2>7
<1> QED BY <1>6, <1>7, <1>8, <1>9 DEF CursorInv

(* The colours after an epoch. *)
LEMMA NewEpoch ==
  ASSUME TypeOK
  PROVE  /\ Rooted(Rotated) \in [Block -> Colour]
         /\ \A b \in Obj : Rooted(Rotated)[b] = Rotated[b]
         /\ \A b \in Obj : colour[b] = "mutator" => Rotated[b] = "marker"
         /\ RootsDark => /\ Rooted(Rotated)[Thread] = "propagator"
                         /\ Rooted(Rotated)[Global] = "propagator"
<1>1. /\ Rotated \in [Block -> Colour]
      /\ \A b \in Block : /\ colour[b] = "mutator" => Rotated[b] = "marker"
                          /\ colour[b] = "propagator" => Rotated[b] = "propagator"
  <2>1. \A b \in Block : colour[b] \in Colour
    BY DEF TypeOK
  <2> QED BY <2>1 DEF Rotated, Colour
<1> DEFINE c == Rotated
           d == Shade(c, Thread)
<1>2. Thread \in Block /\ Global \in Block /\ Thread # Global
      /\ \A b \in Obj : b \in Block /\ b # Thread /\ b # Global
  BY Names DEF Block
<1>3. /\ d \in [Block -> Colour] /\ (c[Thread] # "mutator" => d[Thread] = "propagator")
      /\ \A b \in Block \ {Thread} : d[b] = c[b]
  <2> HIDE DEF c
  <2>1. c \in [Block -> Colour]
    BY <1>1 DEF c
  <2> QED BY <1>2, <2>1 DEF Shade, Colour
<1>4. Rooted(Rotated) = Shade(d, Global)
  BY DEF Rooted
<1> HIDE DEF d
<1>5. /\ Rooted(Rotated) \in [Block -> Colour]
      /\ d[Global] # "mutator" => Rooted(Rotated)[Global] = "propagator"
      /\ \A b \in Block \ {Global} : Rooted(Rotated)[b] = d[b]
  BY <1>2, <1>3, <1>4 DEF Shade, Colour
<1>6. RootsDark => c[Thread] \in {"marker", "propagator"} /\ c[Global] \in {"marker", "propagator"}
  BY <1>1, <1>2 DEF RootsDark, Dark
<1> HIDE DEF c
<1>7. \A b \in Obj : Rooted(Rotated)[b] = c[b]
  BY <1>2, <1>3, <1>5
<1>8. RootsDark => Rooted(Rotated)[Thread] = "propagator" /\ Rooted(Rotated)[Global] = "propagator"
  BY <1>2, <1>3, <1>5, <1>6
<1> QED BY <1>1, <1>2, <1>5, <1>7, <1>8 DEF c

LEMMA CursorInEnd ==
  ASSUME CursorInv, End
  PROVE  CursorInv'
<1>1. /\ UNCHANGED <<list, valr, stk, field, gcptr, gcpptr>>
      /\ phase = "gc" /\ phase' = "program" /\ visit' = 0
      /\ visit = 0 \/ gcptr = Nil
      /\ colour' = IF LastPass THEN Rooted(Rotated) ELSE colour
      /\ nprop' = IF gcptr = Nil THEN FALSE ELSE nprop
  BY DEF End, program, cursor, Reset
<1>2. colour' \in [Block -> Colour]
  BY <1>1, NewEpoch DEF CursorInv, TypeOK
<1>3. nprop' \in BOOLEAN
  <2>1. nprop \in BOOLEAN
    BY DEF CursorInv, TypeOK
  <2> QED BY <1>1, <2>1, Zenon
<1>4. visit' \in 0 .. MaxQuantum
  BY <1>1, CollectorAssumption
<1>5. TypeOK'
  BY <1>1, <1>2, <1>3, <1>4 DEF CursorInv, TypeOK, Allocated
<1>6. PlaceInv'
  BY <1>1 DEF CursorInv, PlaceInv
<1>7. RootsDark'
  BY <1>1, NewEpoch DEF CursorInv, RootsDark, Dark
<1>8. SeenInv'
  <2>1. CASE gcptr = Nil
    BY <1>1, <2>1 DEF SeenInv
  <2>2. CASE gcptr # Nil
    <3>1. colour' = colour /\ nprop' = nprop /\ Allocated' = Allocated
      BY <1>1, <2>2 DEF LastPass, Allocated
    <3> QED BY <1>1, <2>2, <3>1 DEF CursorInv, SeenInv
  <2> QED BY <2>1, <2>2
<1> QED BY <1>5, <1>6, <1>7, <1>8 DEF CursorInv

(* Every step. *)
LEMMA CursorInNext ==
  ASSUME CursorInv, [Next]_vars
  PROVE  CursorInv'
<1>1. CASE Operate
  <2>1. CASE LoadNil \/ LoadGlobal \/ LoadCar \/ StoreGlobal \/ Push \/ Pop \/ SetCar
    BY <2>1, OperationsAreTame, CursorInTame DEF CursorInv
  <2>2. ASSUME NEW o \in Obj, MkCons(o) PROVE CursorInv'
    BY <2>2, MkConsConses, CursorInConses DEF CursorInv
  <2> QED BY <1>1, <2>1, <2>2 DEF Operate
<1>2. CASE Collect
  BY <1>2, CursorInBegin, CursorInVisitPropagator, CursorInVisitSweeper, CursorInVisitOther,
     CursorInEnd DEF Collect
<1>3. CASE UNCHANGED vars
  BY <1>3 DEF vars, program, cursor, CursorInv, TypeOK, Allocated, PlaceInv, RootsDark, SeenInv
<1> QED BY <1>1, <1>2, <1>3 DEF Next

LEMMA CursorAlways == Spec => []CursorInv
<1>1. Init => CursorInv
  BY CursorInitially
<1>2. CursorInv /\ [Next]_vars => CursorInv'
  BY CursorInNext
<1> QED BY <1>1, <1>2, PTL DEF Spec

(* The variables keep their types, and the roots stay on the list of       *)
(* allocated blocks, whose elements are different (gc, free_block).        *)
THEOREM TypeCorrect == Spec => []TypeOK
<1>1. CursorInv => TypeOK
  BY DEF CursorInv
<1> QED BY <1>1, CursorAlways, PTL

(* The cursor of a slice is between neighbours of the list, across slices  *)
(* and whatever is allocated or freed meanwhile (gc, free_block).          *)
THEOREM CursorIsSound == Spec => []CursorSound
<1>1. CursorInv => CursorSound
  <2> SUFFICES ASSUME CursorInv, gcptr # Nil
               PROVE  /\ gcptr \in Allocated
                      /\ IF Place(gcptr) = 1 THEN gcpptr = Nil
                         ELSE gcpptr = list[Place(gcptr) - 1]
    BY DEF CursorSound
  <2>1. PICK i \in 1 .. Len(list) :
          list[i] = gcptr /\ gcpptr = IF i = 1 THEN Nil ELSE list[i - 1]
    BY DEF CursorInv, PlaceInv
  <2>2. Place(gcptr) = i /\ gcptr \in Allocated
    BY <2>1, PlaceOf, ListParts DEF CursorInv
  <2> QED BY <2>1, <2>2
<1> QED BY <1>1, CursorAlways, PTL

(* No propagator is left behind by a pass that has not set nprop, so that  *)
(* an epoch does not end before it was marked (SETMARK, gc).               *)
THEOREM PropagatorsAreNoticed == Spec => []PropagatorsAreSeen
<1>1. CursorInv => PropagatorsAreSeen
  <2> SUFFICES ASSUME CursorInv, NEW b \in Allocated, colour[b] = "propagator", ~nprop
               PROVE  b \in Ahead
    BY DEF PropagatorsAreSeen
  <2>1. CASE gcptr = Nil
    <3>1. phase = "program"
      <4>1. \A i \in 1 .. Len(list) : list[i] # Nil
        BY ListParts DEF CursorInv
      <4> QED BY <2>1, <4>1 DEF CursorInv, SeenInv
    <3> QED BY <2>1, <3>1 DEF Ahead
  <2>2. CASE gcptr # Nil
    <3>1. PICK i \in 1 .. Len(list), j \in 1 .. Len(list) : i <= j /\ list[i] = gcptr /\ list[j] = b
      BY <2>2 DEF CursorInv, SeenInv
    <3>2. Place(gcptr) = i /\ Len(list) \in Nat
      BY <3>1, PlaceOf, ListParts DEF CursorInv
    <3>3. j \in Place(gcptr) .. Len(list)
      BY <3>1, <3>2
    <3> QED BY <2>2, <3>1, <3>3 DEF Ahead
  <2> QED BY <2>1, <2>2
<1> QED BY <1>1, CursorAlways, PTL

-----------------------------------------------------------------------------
(***************************************************************************)
(* What is owed.                                                           *)
(***************************************************************************)

(* A white (marker) block of S is protected: a chain of white blocks of S  *)
(* leads to it from a propagator that will be visited.  Stated with sets:  *)
(* it is in every C that follows the references of propagators and of its  *)
(* own white members.                                                      *)
Leads(C, b) == colour[b] = "propagator" \/ (b \in C /\ colour[b] = "marker")
Follows(S, C) ==
  \A b \in Allocated :
    Leads(C, b) /\ Child(b) \in S /\ colour[Child(b)] = "marker" => Child(b) \in C
Protected(S) ==
  \A x \in S : colour[x] = "marker" => \A C \in SUBSET S : Follows(S, C) => x \in C

LiveSet(S) ==
  /\ S \subseteq Allocated
  /\ \A x \in S : colour[x] # "sweeper"
  /\ Protected(S)
OwedInv == owed \in SUBSET Obj /\ LiveSet(owed)

(* Protection lasts if no block of S turns white and no reference to a     *)
(* block that stays white is lost, nor the propagator or the white block   *)
(* that has it, unless the latter has become a propagator.                 *)
LEMMA ProtectionLasts ==
  ASSUME NEW S, NEW T, S \subseteq T, Protected(S),
         \A x \in T : colour'[x] = "marker" => x \in S /\ colour[x] = "marker",
         \A b \in Allocated :
           /\ Leads(S, b)
           /\ Child(b) \in S /\ colour[Child(b)] = "marker" /\ colour'[Child(b)] = "marker"
           => /\ b \in Allocated' /\ Child(b)' = Child(b)
              /\ \/ colour'[b] = "propagator"
                 \/ colour[b] = "marker" /\ colour'[b] = "marker"
  PROVE  Protected(T)'
<1> SUFFICES ASSUME NEW x \in T, colour'[x] = "marker", NEW C \in SUBSET T, Follows(T, C)'
             PROVE  x \in C
  BY DEF Protected
<1> DEFINE D == {d \in S : d \in C \/ colour'[d] # "marker"}
<1>1. Follows(S, D)
  <2> SUFFICES ASSUME NEW b \in Allocated, Leads(D, b),
                      Child(b) \in S, colour[Child(b)] = "marker",
                      colour'[Child(b)] = "marker"
               PROVE  Child(b) \in C
    BY DEF Follows
  <2>1. Leads(S, b)
    BY DEF Leads
  <2>2. /\ b \in Allocated' /\ Child(b)' = Child(b)
        /\ \/ colour'[b] = "propagator"
           \/ colour[b] = "marker" /\ colour'[b] = "marker"
    BY <2>1
  <2>3. colour'[b] = "propagator" \/ (b \in C /\ colour'[b] = "marker")
    BY <2>2 DEF Leads
  <2>4. Child(b)' \in T /\ colour'[Child(b)'] = "marker"
    BY <2>2
  <2>5. Child(b)' \in C
    BY <2>2, <2>3, <2>4 DEF Follows, Leads
  <2> QED BY <2>2, <2>5
<1>2. x \in S /\ colour[x] = "marker"
  OBVIOUS
<1>3. D \in SUBSET S
  OBVIOUS
<1>4. x \in D
  BY <1>1, <1>2, <1>3 DEF Protected
<1> QED BY <1>4

(* Blocks that only rise in colour are white after only if before.         *)
LEMMA Whitening ==
  ASSUME NEW c, NEW d, Rises(c, d)
  PROVE  /\ d = "marker" => c = "marker"
         /\ d = "sweeper" => c = "sweeper"
         /\ c = "propagator" => d \in Dark
         /\ c = "marker" => d \in {"marker", "propagator", "mutator"}
BY DEF Rises, Dark

LEMMA LiveInTame ==
  ASSUME CursorInv, Tame, NEW S \in SUBSET Obj, LiveSet(S)
  PROVE  LiveSet(S)'
<1>1. list' = list /\ Allocated' = Allocated /\ Allocated \subseteq Block /\ S \subseteq Block
  BY ListParts DEF CursorInv, Tame, Allocated, Block
<1>2. \A b \in Block : colour'[b] = colour[b] \/ (colour[b] # "mutator" /\ colour'[b] = "propagator")
  BY DEF Tame, Shades
<1>3. \A x \in S : colour'[x] # "sweeper"
  BY <1>1, <1>2 DEF LiveSet
<1>4. Protected(S)'
  <2>1. \A x \in S : colour'[x] = "marker" => x \in S /\ colour[x] = "marker"
    BY <1>1, <1>2
  <2>2. ASSUME NEW b \in Allocated, Leads(S, b),
               Child(b) \in S, colour[Child(b)] = "marker", colour'[Child(b)] = "marker"
        PROVE  /\ b \in Allocated' /\ Child(b)' = Child(b)
               /\ \/ colour'[b] = "propagator"
                  \/ colour[b] = "marker" /\ colour'[b] = "marker"
    <3>1. Child(b) # Nil /\ colour'[Child(b)] \notin Dark
      BY <2>2, Names DEF Dark
    <3>2. Child(b)' = Child(b)
      BY <1>1, <3>1 DEF Tame, Overwrites
    <3> QED BY <1>1, <1>2, <2>2, <3>2 DEF Leads
  <2> QED BY <2>1, <2>2, ProtectionLasts DEF LiveSet
<1> QED BY <1>1, <1>3, <1>4 DEF LiveSet

LEMMA LiveInConses ==
  ASSUME CursorInv, NEW o \in Obj, Conses(o), NEW S \in SUBSET Obj, LiveSet(S)
  PROVE  LiveSet(S \cup {o})'
<1> DEFINE T == S \cup {o}
<1>1. /\ Allocated' = Allocated \cup {o} /\ Allocated \subseteq Block /\ S \subseteq Block
      /\ o \in Block /\ o \notin Allocated /\ o \notin S
      /\ o # Thread /\ o # Global
  BY Consed, ListParts, Names DEF CursorInv, Conses, Block, LiveSet
<1>2. \A b \in Block \ {o} :
        colour'[b] = colour[b] \/ (colour[b] # "mutator" /\ colour'[b] = "propagator")
  BY DEF Conses
<1>3. \A x \in T : colour'[x] # "sweeper"
  BY <1>1, <1>2 DEF LiveSet, Conses
<1>4. Protected(T)'
  <2>1. \A x \in T : colour'[x] = "marker" => x \in S /\ colour[x] = "marker"
    BY <1>1, <1>2 DEF Conses
  <2>2. ASSUME NEW b \in Allocated, Leads(S, b),
               Child(b) \in S, colour[Child(b)] = "marker", colour'[Child(b)] = "marker"
        PROVE  /\ b \in Allocated' /\ Child(b)' = Child(b)
               /\ \/ colour'[b] = "propagator"
                  \/ colour[b] = "marker" /\ colour'[b] = "marker"
    <3>1. Child(b) # Nil /\ colour'[Child(b)] \notin Dark /\ Child(b) # o
      BY <1>1, <2>2, Names DEF Dark
    <3>2. b # o /\ b \in Block \ {o}
      BY <1>1
    <3>3. b # Thread
      BY <3>1 DEF Conses, Child
    <3>4. Child(b)' = Child(b)
      <4>1. b \in Obj \cup {Global}
        BY <3>2, <3>3 DEF Block
      <4> QED BY <3>2, <3>3, <4>1 DEF Conses, Child
    <3> QED BY <1>1, <1>2, <2>2, <3>2, <3>4 DEF Leads
  <2>3. S \subseteq T
    OBVIOUS
  <2> HIDE DEF T
  <2> QED BY <2>1, <2>2, <2>3, ProtectionLasts DEF LiveSet
<1>5. T \subseteq Allocated'
  BY <1>1 DEF LiveSet
<1> HIDE DEF T
<1>6. LiveSet(T)'
  BY <1>3, <1>4, <1>5 DEF LiveSet
<1> QED BY <1>6 DEF T

LEMMA LiveInVisitPropagator ==
  ASSUME CursorInv, VisitPropagator, NEW S \in SUBSET Obj, LiveSet(S)
  PROVE  LiveSet(S)'
<1>1. UNCHANGED <<list, valr, stk, field>> /\ Allocated' = Allocated
      /\ Allocated \subseteq Block /\ S \subseteq Block
  BY ListParts DEF CursorInv, VisitPropagator, program, Allocated, Block
<1>2. /\ \A b \in Block : Rises(colour[b], colour'[b])
      /\ \A b \in Block : colour[b] # "mutator" /\ colour'[b] = "mutator" =>
           Child(b) = Nil \/ colour'[Child(b)] \in Dark
  BY VisitMarks DEF CursorInv
<1>3. \A b : Child(b)' = Child(b)
  BY <1>1 DEF Child
<1>4. Protected(S)'
  <2>1. \A x \in S : colour'[x] = "marker" => x \in S /\ colour[x] = "marker"
    BY <1>1, <1>2, Whitening
  <2>2. ASSUME NEW b \in Allocated, Leads(S, b),
               Child(b) \in S, colour[Child(b)] = "marker", colour'[Child(b)] = "marker"
        PROVE  /\ b \in Allocated' /\ Child(b)' = Child(b)
               /\ \/ colour'[b] = "propagator"
                  \/ colour[b] = "marker" /\ colour'[b] = "marker"
    <3>1. Child(b) # Nil /\ colour'[Child(b)] \notin Dark
      BY <2>2, Names DEF Dark
    <3>2. b \in Block /\ colour[b] \in {"propagator", "marker"}
      BY <1>1, <2>2 DEF Leads
    <3>3. colour'[b] # "mutator"
      BY <1>2, <3>1, <3>2
    <3>4. colour'[b] \in {"marker", "propagator"}
      BY <1>2, <3>2, <3>3 DEF Rises
    <3>5. colour'[b] = "marker" => colour[b] = "marker"
      BY <1>2, <3>2, Whitening
    <3> QED BY <1>1, <1>3, <3>4, <3>5
  <2> QED BY <2>1, <2>2, ProtectionLasts DEF LiveSet
<1>5. \A x \in S : colour'[x] # "sweeper"
  BY <1>1, <1>2, Whitening DEF LiveSet
<1> QED BY <1>1, <1>4, <1>5 DEF LiveSet
(* A sweeper is not in S. *)
LEMMA LiveInVisitSweeper ==
  ASSUME CursorInv, VisitSweeper, NEW S \in SUBSET Obj, LiveSet(S)
  PROVE  LiveSet(S)'
<1>1. /\ UNCHANGED <<valr, stk>>
      /\ gcptr \in Obj /\ colour[gcptr] = "sweeper"
      /\ Allocated' = Allocated \ {gcptr}
      /\ colour' = [colour EXCEPT ![gcptr] = "mutator"]
      /\ field' = [field EXCEPT ![gcptr] = Nil]
      /\ colour \in [Block -> Colour] /\ field \in [Obj \cup {Global} -> Ref]
  BY VisitFrees DEF CursorInv, TypeOK
<1>2. gcptr \notin S /\ gcptr # Thread /\ gcptr # Global /\ S \subseteq Block
      /\ Allocated \subseteq Block
  BY <1>1, Names, ListParts DEF LiveSet, CursorInv, Block
<1>3. /\ \A b \in Block \ {gcptr} : colour'[b] = colour[b]
      /\ \A b \in Obj \cup {Global} : b # gcptr => field'[b] = field[b]
  BY <1>1
<1>4. \A b \in Block \ {gcptr} : Child(b)' = Child(b)
  <2>1. \A b \in Block : b # Thread => b \in Obj \cup {Global}
    BY DEF Block
  <2> QED BY <1>1, <1>3, <2>1 DEF Child
<1>5. \A x \in S : colour'[x] = colour[x]
  BY <1>2, <1>3
<1>6. Protected(S)'
  <2>1. \A x \in S : colour'[x] = "marker" => x \in S /\ colour[x] = "marker"
    BY <1>5
  <2>2. ASSUME NEW b \in Allocated, Leads(S, b),
               Child(b) \in S, colour[Child(b)] = "marker", colour'[Child(b)] = "marker"
        PROVE  /\ b \in Allocated' /\ Child(b)' = Child(b)
               /\ \/ colour'[b] = "propagator"
                  \/ colour[b] = "marker" /\ colour'[b] = "marker"
    <3>1. b # gcptr /\ b \in Block
      BY <1>1, <1>2, <2>2 DEF Leads
    <3> QED BY <1>1, <1>3, <1>4, <2>2, <3>1 DEF Leads
  <2> QED BY <2>1, <2>2, ProtectionLasts DEF LiveSet
<1> QED BY <1>1, <1>2, <1>5, <1>6 DEF LiveSet

(* What is kept holds the references of its members and of the roots that  *)
(* were owed.                                                              *)
LEMMA KeptIsClosed ==
  /\ Kept \subseteq owed
  /\ \A X \in SUBSET owed : Hangs(X) => Kept \subseteq X
  /\ Hangs(Kept)
<1>1. Kept \subseteq owed /\ \A X \in SUBSET owed : Hangs(X) => Kept \subseteq X
  BY DEF Kept
<1>2. Hangs(Kept)
  <2> SUFFICES ASSUME NEW r \in owed,
                      r \in {valr, field[Global]} \cup {field[o] : o \in Kept}
               PROVE  r \in Kept
    BY DEF Hangs
  <2> SUFFICES ASSUME NEW X \in SUBSET owed, Hangs(X) PROVE r \in X
    BY DEF Kept
  <2>1. Kept \subseteq X
    BY <1>1
  <2> QED BY <2>1 DEF Hangs
<1> QED BY <1>1, <1>2

(* A new epoch: there are no propagators, hence nothing white among what   *)
(* was owed.  What is kept turns white, and hangs on the roots, which are  *)
(* shaded.                                                                 *)
LEMMA KeptInNewEpoch ==
  ASSUME CursorInv, OwedInv, EpochEnds
  PROVE  \E L \in SUBSET Obj : L = Kept /\ LiveSet(L)'
<1>1. PICK L \in SUBSET owed : L = Kept
  BY KeptIsClosed
<1>2. /\ \A X \in SUBSET owed : Hangs(X) => L \subseteq X
      /\ Hangs(L)
  BY <1>1, KeptIsClosed
<1>3. /\ UNCHANGED <<list, valr, stk, field>> /\ Allocated' = Allocated
      /\ colour' = Rooted(Rotated) /\ gcptr = Nil /\ ~nprop /\ phase = "gc"
  BY DEF EpochEnds, End, program, LastPass, Allocated
<1>4. \A b \in Allocated : colour[b] # "propagator"
  <2>1. \A i \in 1 .. Len(list) : list[i] # Nil
    BY ListParts DEF CursorInv
  <2> QED BY <1>3, <2>1 DEF CursorInv, SeenInv
<1>5. \A x \in owed : colour[x] = "mutator"
  <2>1. \A x \in owed : colour[x] # "marker"
    <3>1. Follows(owed, {})
      BY <1>4 DEF Follows, Leads
    <3>2. {} \in SUBSET owed
      OBVIOUS
    <3> QED BY <3>1, <3>2 DEF OwedInv, LiveSet, Protected
  <2>2. \A x \in owed : colour[x] \in Colour /\ x \in Allocated
    BY DEF OwedInv, LiveSet, CursorInv, TypeOK, Block
  <2> QED BY <1>4, <2>1, <2>2 DEF OwedInv, LiveSet, Colour
<1>6. owed \subseteq Obj /\ owed \subseteq Allocated
  BY DEF OwedInv, LiveSet
<1>7. /\ \A x \in L : colour'[x] = "marker"
      /\ colour'[Thread] = "propagator" /\ colour'[Global] = "propagator"
  BY <1>3, <1>5, <1>6, NewEpoch DEF CursorInv
<1>8. Protected(L)'
  <2> SUFFICES ASSUME NEW C \in SUBSET L, Follows(L, C)' PROVE L \subseteq C
    BY DEF Protected
  <2>1. Thread \in Allocated' /\ Global \in Allocated' /\ Thread # Global
        /\ \A o \in L : o \in Allocated' /\ o # Thread
    BY <1>3, <1>6, Names DEF CursorInv, TypeOK
  <2>2. /\ Child(Thread)' = valr /\ Child(Global)' = field[Global]
        /\ \A o \in L : Child(o)' = field[o]
    BY <1>3, <2>1 DEF Child
  <2>3. ASSUME NEW r \in owed, r \in {valr, field[Global]} \cup {field[o] : o \in C}
        PROVE  r \in C
    <3>1. r \in L
      BY <1>2, <2>3 DEF Hangs
    <3>2. colour'[r] = "marker"
      BY <1>7, <3>1
    <3>3. CASE r = valr
      BY <1>7, <2>1, <2>2, <3>1, <3>2, <3>3 DEF Follows, Leads
    <3>4. CASE r = field[Global]
      BY <1>7, <2>1, <2>2, <3>1, <3>2, <3>4 DEF Follows, Leads
    <3>5. CASE \E o \in C : r = field[o]
      <4>1. PICK o \in C : r = field[o]
        BY <3>5
      <4>2. o \in L /\ colour'[o] = "marker"
        BY <1>7
      <4> QED BY <2>1, <2>2, <3>1, <3>2, <4>1, <4>2 DEF Follows, Leads
    <3> QED BY <2>3, <3>3, <3>4, <3>5
  <2>4. Hangs(C) /\ C \in SUBSET owed
    BY <2>3 DEF Hangs
  <2> QED BY <1>2, <2>4
<1>9. LiveSet(L)'
  <2>1. L \subseteq Allocated'
    BY <1>3, <1>6
  <2>2. \A x \in L : colour'[x] # "sweeper"
    BY <1>7
  <2> QED BY <1>8, <2>1, <2>2 DEF LiveSet
<1> QED BY <1>1, <1>6, <1>9

(* What is owed grows by the blocks that a step puts on the list.          *)
LEMMA Owes ==
  ASSUME OwedInv, SNext, ~EpochEnds
  PROVE  /\ Allocated' \subseteq Allocated => owed' = owed
         /\ \A o \in Obj \ Allocated :
              Allocated' = Allocated \cup {o} => owed' = owed \cup {o}
<1>1. owed' = owed \cup (Allocated' \ Allocated)
  BY DEF SNext
<1> QED BY <1>1 DEF OwedInv, LiveSet

LEMMA OwedInNext ==
  ASSUME CursorInv, OwedInv, [SNext]_svars
  PROVE  OwedInv'
<1>1. owed \in SUBSET Obj /\ LiveSet(owed)
  BY DEF OwedInv
<1>2. ASSUME NEW T \in SUBSET Obj, LiveSet(T)', owed' = T PROVE OwedInv'
  BY <1>2 DEF OwedInv, LiveSet, Protected, Follows, Leads
<1>3. CASE UNCHANGED svars
  <2>1. UNCHANGED <<list, colour, valr, stk, field, owed>>
    BY <1>3 DEF svars, vars, program
  <2>2. LiveSet(owed)'
    BY <1>1, <2>1 DEF LiveSet, Allocated, Protected, Follows, Leads, Child
  <2> QED BY <1>1, <2>1, <2>2 DEF OwedInv
<1>4. CASE SNext /\ EpochEnds
  <2>1. PICK L \in SUBSET Obj : L = Kept /\ LiveSet(L)'
    BY <1>4, KeptInNewEpoch
  <2>2. owed' = L
    BY <1>4, <2>1 DEF SNext
  <2> QED BY <1>2, <2>1, <2>2
<1>5. CASE SNext /\ ~EpochEnds
  <2>1. PICK S \in SUBSET Obj : S = owed /\ LiveSet(S)
    BY <1>1
  <2>2. ASSUME LiveSet(S)', Allocated' \subseteq Allocated PROVE OwedInv'
    <3>1. owed' = S
      BY <1>5, <2>1, <2>2, Owes
    <3> QED BY <1>2, <2>2, <3>1
  <2>3. CASE LoadNil \/ LoadGlobal \/ LoadCar \/ StoreGlobal \/ Push \/ Pop \/ SetCar
    <3>1. Tame
      BY <2>3, OperationsAreTame DEF CursorInv
    <3>2. LiveSet(S)'
      BY <2>1, <3>1, LiveInTame
    <3>3. Allocated' = Allocated
      BY <3>1 DEF Tame, Allocated
    <3> QED BY <2>2, <3>2, <3>3
  <2>4. ASSUME NEW o \in Obj, MkCons(o) PROVE OwedInv'
    <3>1. Conses(o)
      BY <2>4, MkConsConses DEF CursorInv
    <3> DEFINE T == S \cup {o}
    <3>2. LiveSet(T)'
      BY <2>1, <3>1, LiveInConses
    <3>3. o \notin Allocated /\ Allocated' = Allocated \cup {o}
      BY <3>1, Consed DEF CursorInv, Conses
    <3>4. owed' = T
      BY <1>5, <2>1, <3>3, Owes
    <3>5. T \in SUBSET Obj
      OBVIOUS
    <3> HIDE DEF T
    <3> QED BY <1>2, <3>2, <3>4, <3>5
  <2>5. CASE Begin \/ VisitOther \/ (End /\ ~LastPass)
    <3>1. UNCHANGED <<list, colour, valr, stk, field>>
      BY <2>5 DEF Begin, VisitOther, End, program
    <3>2. LiveSet(S)'
      BY <2>1, <3>1 DEF LiveSet, Allocated, Protected, Follows, Leads, Child
    <3>3. Allocated' = Allocated
      BY <3>1 DEF Allocated
    <3> QED BY <2>2, <3>2, <3>3
  <2>6. CASE VisitPropagator
    <3>1. LiveSet(S)'
      BY <2>1, <2>6, LiveInVisitPropagator
    <3>2. Allocated' = Allocated
      BY <2>6 DEF VisitPropagator, Allocated
    <3> QED BY <2>2, <3>1, <3>2
  <2>7. CASE VisitSweeper
    <3>1. LiveSet(S)'
      BY <2>1, <2>7, LiveInVisitSweeper
    <3>2. Allocated' \subseteq Allocated
      BY <2>7, VisitFrees
    <3> QED BY <2>2, <3>1, <3>2
  <2>8. Next /\ ~(End /\ LastPass)
    BY <1>5 DEF SNext, EpochEnds
  <2> QED BY <2>3, <2>4, <2>5, <2>6, <2>7, <2>8 DEF Next, Operate, Collect
<1> QED BY <1>3, <1>4, <1>5

(* What was reachable from the global and the value register at every end  *)
(* of an epoch, by way of conses of which that is true as well, is not     *)
(* freed: whatever the program moves, overwrites or allocates between two  *)
(* slices, whatever it has on its stack, and wherever a budget ends a      *)
(* slice (gc, mark, __arc_wb).                                             *)
THEOREM OwedIsKept == SSpec => []NothingOwedIsFreed
<1> DEFINE Inv == CursorInv /\ OwedInv
<1>1. SInit => Inv
  <2> SUFFICES ASSUME SInit PROVE Inv
    OBVIOUS
  <2>1. CursorInv
    BY CursorInitially DEF SInit
  <2>2. OwedInv
    BY DEF SInit, OwedInv, LiveSet, Protected
  <2> QED BY <2>1, <2>2
<1>2. Inv /\ [SNext]_svars => Inv'
  <2> SUFFICES ASSUME Inv, [SNext]_svars PROVE Inv'
    OBVIOUS
  <2>1. [Next]_vars
    BY DEF SNext, svars
  <2>2. CursorInv'
    BY <2>1, CursorInNext
  <2> QED BY <2>2, OwedInNext
<1>3. Inv => NothingOwedIsFreed
  BY DEF OwedInv, LiveSet, NothingOwedIsFreed
<1> HIDE DEF Inv
<1> QED BY <1>1, <1>2, <1>3, PTL DEF SSpec

=============================================================================
